---- MODULE Spec2Model ----
(***************************************************************************)
(* GripMMI telemetry ingestion: the cache readers GetGripRT and            *)
(* GetLatestGripHK of GripMMIData.cpp, the sample buffers of               *)
(* GripMMIGlobals.h and the recursive filters of DexAnalogMixin.cpp.       *)
(*                                                                         *)
(* Numbers.  A C double is a fixed-point integer counting thousandths, so  *)
(* 1.0 is 1000 and COP_MIN_GRIP (0.5) is 500.  A quotient of two doubles   *)
(* is Div, which rounds toward zero.  Dimensionless factors (the filter    *)
(* constant, the divisor 10.0 of the position scaling) are plain integers. *)
(* A 32-bit sync marker is the pair of its two 16-bit halves.              *)
(***************************************************************************)
EXTENDS Integers, Sequences, FiniteSets, TLC

(***************************************************************************)
(* Bounds of the model.                                                    *)
(***************************************************************************)
\* Capacity of the sample buffers.  The program allocates 12*60*60*20
\* frames (GripMMIGlobals.h:22); the model keeps the same loops over a
\* small capacity so that a cache of MaxRecords packets can fill it.
MAX_FRAMES == 25
\* Largest number of records the external producer writes to each cache file.
MaxRecords == 2
\* Largest number of calls (GetGripRT or GetLatestGripHK) in one run.
MaxCalls == 2
\* Largest number of filter updates made on one DexAnalogMixin instance
\* called on its own.
MaxFilterCalls == 2
\* The floating-point tolerance on a recovered pose, in thousandths.
PoseTolerance == 20
\* Capacity of the delta arrays of ComputeRigidBodyPose.  VectorsMixin.h,
\* which sets it, is not among the sources; the model keeps the clamp and
\* the loops of the code over a capacity of its own.
MAX_RIGID_BODY_MARKERS == 5

(***************************************************************************)
(* Program constants.                                                      *)
(***************************************************************************)
MAX_OPEN_CACHE_RETRIES == 5
PACKET_STREAM_BREAK_THRESHOLD == 1000
MAX_PLOT_STEP == 8
RT_SLICES_PER_PACKET == 10
CODA_MARKERS == 20
MANIPULANDUM_FIRST_MARKER == 0
MANIPULANDUM_LAST_MARKER == 7
FRAME_FIRST_MARKER == 8
FRAME_LAST_MARKER == 11
WRIST_FIRST_MARKER == 12
WRIST_LAST_MARKER == 19
COP_MIN_GRIP == 500
GRIP_HK_ID == 769
GRIP_RT_ID == 4097
EPM_TELEMETRY_SYNC_VALUE == <<65499, 21581>>
EPM_TRANSFER_FRAME_SYNC_VALUE == <<43593, 56319>>
rtPacketLengthInBytes == 802
hkPacketLengthInBytes == 158
N_FORCE_TRANSDUCERS == 2
LEFT_ATI == 1
RIGHT_ATI == 2
MISSING_DOUBLE == 999999999
\* The value of a double that is not finite (a NaN from atan2 of NaN).
NOT_FINITE == -999999999
TRUE_ == 1
FALSE_ == 0
\* Width of the telemetry counter (unsigned short TMCounter).
TMCounterModulus == 65536

(***************************************************************************)
(* Arithmetic helpers.                                                     *)
(***************************************************************************)
\* Quotient of doubles, rounded toward zero.
Div(a, b) ==
  IF b = 0 THEN NOT_FINITE
  ELSE LET s == IF (a < 0) = (b < 0) THEN 1 ELSE -1
           aa == IF a < 0 THEN -a ELSE a
           bb == IF b < 0 THEN -b ELSE b
       IN  s * (aa \div bb)

fabs(a) == IF a < 0 THEN -a ELSE a

RECURSIVE SqrtSearch(_, _, _)
SqrtSearch(n, lo, hi) ==
  IF lo >= hi THEN lo
  ELSE LET mid == (lo + hi + 1) \div 2
       IN  IF mid * mid <= n THEN SqrtSearch(n, mid, hi)
           ELSE SqrtSearch(n, lo, mid - 1)

\* sqrt of a non-negative integer, rounded down.
sqrt(n) == SqrtSearch(n, 0, 46340)

_finite(a) == a # NOT_FINITE

\* The number of values the significand of a float distinguishes (24 bits).
FloatSignificand == 16777216

\* The spacing of the floats around a magnitude m, in the unit of the model.
RECURSIVE FloatSpacing(_, _)
FloatSpacing(m, p) ==
  IF m \div p < FloatSignificand THEN p ELSE FloatSpacing(m, 2 * p)

\* The cast (float): the value is rounded to the nearest float, ties to even.
\* A value keeps 24 significant bits of its count of model units.
ToFloat(a) ==
  IF a = NOT_FINITE THEN NOT_FINITE
  ELSE LET m == fabs(a)
           p == FloatSpacing(m, 1)
           q == m \div p
           r == m % p
           up == 2 * r > p \/ (2 * r = p /\ q % 2 = 1)
           v == (IF up THEN q + 1 ELSE q) * p
       IN  IF a < 0 THEN -v ELSE v

zeroVector == <<0, 0, 0>>
missingVector == <<MISSING_DOUBLE, MISSING_DOUBLE, MISSING_DOUBLE>>
nullQuaternion == <<0, 0, 0, 1000>>

\* Arithmetic on doubles that may be not finite: NOT_FINITE stands for a NaN
\* and for an infinity, and whatever is computed from it is NOT_FINITE.
Plus(a, b) == IF _finite(a) /\ _finite(b) THEN a + b ELSE NOT_FINITE
Minus(a, b) == IF _finite(a) /\ _finite(b) THEN a - b ELSE NOT_FINITE

\* a * b for two fixed-point values; the larger one is split so that the
\* product stays within the integers of the checker.
Times(a, b) ==
  IF ~_finite(a) \/ ~_finite(b) THEN NOT_FINITE
  ELSE LET aa == fabs(a)
           bb == fabs(b)
           big == IF aa >= bb THEN aa ELSE bb
           small == IF aa >= bb THEN bb ELSE aa
           magnitude == (big \div 1000) * small + ((big % 1000) * small) \div 1000
       IN  IF (a < 0) = (b < 0) THEN magnitude ELSE -magnitude

\* a / b for two fixed-point values: not finite when b is zero.
Over(a, b) ==
  IF ~_finite(a) \/ ~_finite(b) \/ b = 0 THEN NOT_FINITE
  ELSE LET aa == fabs(a)
           bb == fabs(b)
           magnitude == (aa \div bb) * 1000 + ((aa % bb) * 1000) \div bb
       IN  IF (a < 0) = (b < 0) THEN magnitude ELSE -magnitude

\* (float) a * scaling, the scaling being the ratio num / den.
ScaleComponent(a, num, den) ==
  IF ~_finite(a) \/ ~_finite(num) \/ ~_finite(den) THEN NOT_FINITE
  ELSE Div(ToFloat(a) * num, den)

\* ScaleVector( Vector3, Vector3, double ): each component is cast to float
\* and multiplied by the scaling, which is the ratio num / den.
ScaleVector(a, num, den) ==
  << ScaleComponent(a[1], num, den),
     ScaleComponent(a[2], num, den),
     ScaleComponent(a[3], num, den) >>

AddVectors(a, b) == <<Plus(a[1], b[1]), Plus(a[2], b[2]), Plus(a[3], b[3])>>

SubtractVectors(a, b) == <<Minus(a[1], b[1]), Minus(a[2], b[2]), Minus(a[3], b[3])>>

\* VectorNorm: sqrt( x*x + y*y + z*z ) of fixed-point components.
VectorNorm(v) ==
  IF _finite(v[1]) /\ _finite(v[2]) /\ _finite(v[3])
  THEN sqrt(v[1] * v[1] + v[2] * v[2] + v[3] * v[3])
  ELSE NOT_FINITE

\* sqrt of a fixed-point value: not finite for a negative one.
SquareRoot(a) == IF ~_finite(a) \/ a < 0 THEN NOT_FINITE ELSE sqrt(a * 1000)

\* F(a) and F(a, b) with each argument evaluated once, before F is applied.
With(F(_), a) == CHOOSE r \in {F(x) : x \in {a}} : TRUE
With2(F(_, _), a, b) == CHOOSE r \in {F(x, y) : x \in {a}, y \in {b}} : TRUE

\* ScaleVector( v, v, 1.0 / VectorNorm(v) ).
NormalizeVector(v) ==
  With(LAMBDA x : With(LAMBDA norm : ScaleVector(x, 1000, norm), VectorNorm(x)), v)

ComputeCrossProduct(v1, v2) ==
  << Minus(Times(v1[2], v2[3]), Times(v1[3], v2[2])),
     Minus(Times(v1[3], v2[1]), Times(v1[1], v2[3])),
     Minus(Times(v1[1], v2[2]), Times(v1[2], v2[1])) >>

(***************************************************************************)
(* Matrices (arrays of three rows) and quaternions (X, Y, Z, M).           *)
(***************************************************************************)
\* The matrix of the elements e(i, j).
Matrix(e(_, _)) ==
  << <<e(1, 1), e(1, 2), e(1, 3)>>,
     <<e(2, 1), e(2, 2), e(2, 3)>>,
     <<e(3, 1), e(3, 2), e(3, 3)>> >>

\* result[i][j] += left[i][k] * right[k][j].
MultiplyMatrices(left, right) ==
  With2(LAMBDA l, r :
          Matrix(LAMBDA i, j :
                   Plus(Plus(Times(l[i][1], r[1][j]), Times(l[i][2], r[2][j])),
                        Times(l[i][3], r[3][j]))),
        left, right)

OrthonormalizeMatrix(m) ==
  With(LAMBDA rows :
         With(LAMBDA z :
                With(LAMBDA y :
                       << NormalizeVector(rows[1]), NormalizeVector(y),
                          NormalizeVector(z) >>,
                     ComputeCrossProduct(z, rows[1])),
              ComputeCrossProduct(rows[1], rows[2])),
       m)

\* The sum over the first rows rows of left[k][i] * right[k][j].
RECURSIVE SumOfProducts(_, _, _, _, _)
SumOfProducts(left, right, rows, i, j) ==
  IF rows = 0 THEN 0
  ELSE Plus(SumOfProducts(left, right, rows - 1, i, j),
            Times(left[rows][i], right[rows][j]))

\* transpose(left) * right / rows.
CrossVectors(left, right, rows) ==
  With2(LAMBDA l, r :
          Matrix(LAMBDA i, j : Over(SumOfProducts(l, r, rows, i, j), rows * 1000)),
        left, right)

Determinant(m) ==
  Plus(Minus(Times(m[1][1], Minus(Times(m[3][3], m[2][2]), Times(m[3][2], m[2][3]))),
             Times(m[2][1], Minus(Times(m[3][3], m[1][2]), Times(m[3][2], m[1][3])))),
       Times(m[3][1], Minus(Times(m[2][3], m[1][2]), Times(m[2][2], m[1][3]))))

\* The matrix that InvertMatrix scales by 1.0 / det.
Adjugate(m) ==
  << << Minus(Times(m[3][3], m[2][2]), Times(m[3][2], m[2][3])),
        Minus(Times(m[3][2], m[1][3]), Times(m[3][3], m[1][2])),
        Minus(Times(m[2][3], m[1][2]), Times(m[2][2], m[1][3])) >>,
     << Minus(Times(m[3][1], m[2][3]), Times(m[3][3], m[2][1])),
        Minus(Times(m[3][3], m[1][1]), Times(m[3][1], m[1][3])),
        Minus(Times(m[2][1], m[1][3]), Times(m[2][3], m[1][1])) >>,
     << Minus(Times(m[3][2], m[2][1]), Times(m[3][1], m[2][2])),
        Minus(Times(m[3][1], m[1][2]), Times(m[3][2], m[1][1])),
        Minus(Times(m[2][2], m[1][1]), Times(m[2][1], m[1][2])) >> >>

\* The adjugate scaled by 1.0 / det; the scaling by the reciprocal is taken
\* as the division by det that it is.
InvertMatrix(m) ==
  With(LAMBDA rows :
         With2(LAMBDA r, det : Matrix(LAMBDA i, j : Over(r[i][j], det)),
               Adjugate(rows), Determinant(rows)),
       m)

\* The Moore-Penrose pseudo-inverse of the input applied to the output.
BestFitTransformation(input, output, rows) ==
  With2(LAMBDA in, out :
          LET right == CrossVectors(in, out, rows)
              left == CrossVectors(in, in, rows)
          IN  MultiplyMatrices(InvertMatrix(left), right),
        input, output)

\* A comparison of doubles is false when either is not finite.
Greater(a, b) == _finite(a) /\ _finite(b) /\ a > b

\* The branch of MatrixToQuaternion compiled without DEX_IMPLEMENTATION.
MatrixToQuaternion(m) ==
  With(LAMBDA ortho :
         LET xx == ortho[1][1]
             yy == ortho[2][2]
             zz == ortho[3][3]
             t == Plus(Plus(xx, yy), zz)
             half(r) == Times(500, r)
             yzMinus == Minus(ortho[2][3], ortho[3][2])
             zxMinus == Minus(ortho[3][1], ortho[1][3])
             xyMinus == Minus(ortho[1][2], ortho[2][1])
             yxPlus == Plus(ortho[2][1], ortho[1][2])
             zxPlus == Plus(ortho[3][1], ortho[1][3])
             zyPlus == Plus(ortho[3][2], ortho[2][3])
         IN  IF Greater(t, 0)
             THEN LET r == SquareRoot(Plus(1000, t))
                      s == Over(500, r)
                  IN  << Times(yzMinus, s), Times(zxMinus, s), Times(xyMinus, s),
                         half(r) >>
             ELSE IF Greater(xx, yy) /\ Greater(xx, zz)
             THEN LET r == SquareRoot(Minus(Minus(Plus(1000, xx), yy), zz))
                      s == Over(500, r)
                  IN  << half(r), Times(yxPlus, s), Times(zxPlus, s),
                         Times(yzMinus, s) >>
             ELSE IF Greater(yy, zz)
             THEN LET r == SquareRoot(Minus(Minus(Plus(1000, yy), xx), zz))
                      s == Over(500, r)
                  IN  << Times(yxPlus, s), half(r), Times(zyPlus, s),
                         Times(zxMinus, s) >>
             ELSE LET r == SquareRoot(Minus(Minus(Plus(1000, zz), xx), yy))
                      s == Over(500, r)
                  IN  << Times(zxPlus, s), Times(zyPlus, s), half(r),
                         Times(xyMinus, s) >>,
       OrthonormalizeMatrix(m))

MultiplyQuaternions(q1, q2) ==
  << Minus(Plus(Plus(Times(q1[4], q2[1]), Times(q1[1], q2[4])), Times(q1[2], q2[3])),
           Times(q1[3], q2[2])),
     Plus(Plus(Minus(Times(q1[4], q2[2]), Times(q1[1], q2[3])), Times(q1[2], q2[4])),
          Times(q1[3], q2[1])),
     Plus(Minus(Plus(Times(q1[4], q2[3]), Times(q1[1], q2[2])), Times(q1[2], q2[1])),
          Times(q1[3], q2[4])),
     Minus(Minus(Minus(Times(q1[4], q2[4]), Times(q1[1], q2[1])), Times(q1[2], q2[2])),
           Times(q1[3], q2[3])) >>

\* The conjugate of q, made by ScaleVector with -1.0 on the vector part.
Conjugate(q) ==
  With(LAMBDA c : <<c[1], c[2], c[3], q[4]>>, ScaleVector(q, -1, 1))

\* q v q*.
RotateVector(q, v) ==
  With2(LAMBDA quat, vec :
          With2(LAMBDA qv, conjugate :
                  With(LAMBDA rq : <<rq[1], rq[2], rq[3]>>,
                       MultiplyQuaternions(qv, conjugate)),
                MultiplyQuaternions(quat, <<vec[1], vec[2], vec[3], 0>>),
                Conjugate(quat)),
        q, v)

(***************************************************************************)
(* ComputeRigidBodyPose (VectorsMixin.cpp:489-627).                        *)
(***************************************************************************)
\* A null pointer given as default_orientation.
NoOrientation == <<>>

\* -999.999, which marks a pose that could not be computed.
INVALID_POSE == -999999

\* Mutant: the marker count is taken as it is given.
ClampMarkerCount_Unclamped(N) == N

\* if (N > MAX_RIGID_BODY_MARKERS) N = MAX_RIGID_BODY_MARKERS;
ClampMarkerCount(N) == IF N > MAX_RIGID_BODY_MARKERS THEN MAX_RIGID_BODY_MARKERS ELSE N

\* Mutant: without a default orientation only one or two markers are refused.
PoseImpossible_SomeMarker(N, default_orientation) ==
  N < 3 /\ N > 0 /\ default_orientation = NoOrientation

\* N < 3 && ! default_orientation
PoseImpossible(N, default_orientation) == N < 3 /\ default_orientation = NoOrientation

\* The first n elements of an array, as a list.
RECURSIVE Array(_, _)
Array(elements, n) ==
  IF n = 0 THEN <<>> ELSE Append(Array(elements, n - 1), elements[n])

\* The sum of the first n vectors of a list.
RECURSIVE SumVectors(_, _)
SumVectors(markers, n) ==
  IF n = 0 THEN zeroVector
  ELSE With(LAMBDA sum : AddVectors(sum, markers[n]), SumVectors(markers, n - 1))

\* The offset of each of the first n markers from their centroid.
DeltasFromCentroid(markers, n) ==
  With(LAMBDA centroid :
         With(LAMBDA delta : Array(delta, n),
              [i \in 1 .. n |-> SubtractVectors(markers[i], centroid)]),
       ScaleVector(SumVectors(markers, n), 1, n))

\* The deltas moved off their plane: the center of rotation is the cross
\* product of the first two deltas, scaled by reference / first / second
\* (norms), and it is subtracted from every delta.
OffPlane(delta, n, reference, first, second) ==
  With(LAMBDA center_of_rotation :
         With(LAMBDA moved : Array(moved, n),
              [i \in 1 .. n |-> SubtractVectors(delta[i], center_of_rotation)]),
       ScaleVector(ComputeCrossProduct(delta[1], delta[2]),
                   Over(Over(reference, first), second), 1000))

\* More than three markers: the rotation that best fits the data.
OrientationOverConstrained(model, actual, n) ==
  With2(LAMBDA model_delta, actual_delta :
          With2(LAMBDA model_moved, actual_moved :
                  MatrixToQuaternion(BestFitTransformation(model_moved, actual_moved, n)),
                OffPlane(model_delta, n, VectorNorm(model_delta[1]),
                         VectorNorm(model_delta[1]), VectorNorm(model_delta[2])),
                OffPlane(actual_delta, n, VectorNorm(model_delta[1]),
                         VectorNorm(actual_delta[1]), VectorNorm(actual_delta[2]))),
        DeltasFromCentroid(model, n), DeltasFromCentroid(actual, n))

\* The axes that three markers define.
LocalAxes(markers) ==
  With2(LAMBDA x, temp :
          With(LAMBDA z :
                 With(LAMBDA y : <<x, y, z>>,
                      NormalizeVector(ComputeCrossProduct(z, x))),
               NormalizeVector(ComputeCrossProduct(x, temp))),
        NormalizeVector(SubtractVectors(markers[2], markers[1])),
        SubtractVectors(markers[3], markers[1]))

\* Exactly three markers: the matrix that maps the model to the actual.
OrientationExact(model, actual) ==
  MatrixToQuaternion(MultiplyMatrices(InvertMatrix(LocalAxes(model)), LocalAxes(actual)))

\* The sum over the first n markers of actual - model rotated.
RECURSIVE SumOfOffsets(_, _, _, _)
SumOfOffsets(model, actual, orientation, n) ==
  IF n = 0 THEN zeroVector
  ELSE With2(LAMBDA position, rotated_model :
               AddVectors(position, SubtractVectors(actual[n], rotated_model)),
             SumOfOffsets(model, actual, orientation, n - 1),
             RotateVector(orientation, model[n]))

\* The call: what it returns, what it leaves in position and orientation,
\* and the slots of the marker and delta arrays it reads or writes (indices
\* as in the code, from 0).
ComputeRigidBodyPose(model, actual, N, default_orientation) ==
  LET n == ClampMarkerCount(N)
  IN  IF PoseImpossible(n, default_orientation)
      THEN [ valid |-> FALSE,
             position |-> <<INVALID_POSE, INVALID_POSE, INVALID_POSE>>,
             orientation |-> <<INVALID_POSE, INVALID_POSE, INVALID_POSE, INVALID_POSE>>,
             slots |-> {} ]
      ELSE With(LAMBDA orientation :
                  [ valid |-> TRUE,
                    position |->
                      ScaleVector(SumOfOffsets(model, actual, orientation, n), 1, n),
                    orientation |-> orientation,
                    slots |-> (0 .. (n - 1)) \cup (IF n > 3 THEN {0, 1} ELSE {}) ],
                IF n > 3 THEN OrientationOverConstrained(model, actual, n)
                ELSE IF n = 3 THEN OrientationExact(model, actual)
                ELSE default_orientation)

(***************************************************************************)
(* Cache contents: what the external producer writes.                      *)
(***************************************************************************)
\* The quaternion of a rotation of 90 degrees about X, (sin 45, 0, 0, cos 45).
rotQuaternion == <<707, 0, 0, 707>>
nanQuaternion == <<NOT_FINITE, NOT_FINITE, NOT_FINITE, NOT_FINITE>>

\* One ManipulandumPacket (GripPackets.h:93-111) without its two timestamps.
\* A marker visibility mask is written as the set of the bits that are set
\* in it, one mask for each coda.
SliceVisible ==
  [ manipulandumVisibility |-> 1,
    markerVisibility |-> <<{0, 1, 2, 3, 8, 9}, {3, 4, 5, 10, 11, 12, 13, 14}>>,
    position |-> <<2020000, -1010000, 505000>>,
    quaternion |-> rotQuaternion,
    ft |-> << [force |-> <<-2000, 300, 0>>, torque |-> <<0, 4000, -2000>>],
              [force |-> <<2400, 0, 100>>, torque |-> <<0, -2400, 4800>>] >>,
    acceleration |-> <<0, 0, 9810>> ]

SliceHidden ==
  [ manipulandumVisibility |-> 0,
    markerVisibility |-> <<{0, 1, 2, 3, 4, 5, 6, 7, 8, 9, 10}, {4, 5, 8, 12, 13}>>,
    position |-> <<7070000, 7070000, 7070000>>,
    quaternion |-> nanQuaternion,
    ft |-> << [force |-> <<-500, 0, 0>>, torque |-> <<0, 1000, 1000>>],
              [force |-> <<300, 200, 0>>, torque |-> <<0, 1000, 1000>>] >>,
    acceleration |-> <<1000, 0, 0>> ]

\* The visibility byte is non-zero but its bit 0 is clear; the quaternion is NaN.
SliceOdd ==
  [ manipulandumVisibility |-> 2,
    markerVisibility |-> <<{}, {8, 9, 10, 11, 12, 13, 14, 15, 16, 17, 18, 19}>>,
    position |-> <<-3030000, 0, 1010000>>,
    quaternion |-> nanQuaternion,
    ft |-> << [force |-> <<-600, 0, 0>>, torque |-> <<0, 0, 1200>>],
              [force |-> <<0, 0, 0>>, torque |-> <<0, 0, 0>>] >>,
    acceleration |-> <<0, 0, 0>> ]

Slices == 0 .. (RT_SLICES_PER_PACKET - 1)

\* The payload of the packets the producer writes: ten slices, in turn
\* visible, hidden, visible with the identity orientation, and odd.
Payload ==
  [s \in Slices |->
     IF s % 4 = 0 THEN SliceVisible
     ELSE IF s % 4 = 1 THEN SliceHidden
     ELSE IF s % 4 = 2
          THEN [SliceVisible EXCEPT !.quaternion = nullQuaternion,
                                    !.markerVisibility = <<{8}, {12, 13}>>]
     ELSE SliceOdd]

\* Packet timestamps the producer chooses among (seconds, fixed point).
PacketTimestamps == {0, 1000, 3000}

\* Each sample of a packet carries a reconstructed timestamp
\* (GripPackets.h:107-110); the producer spaces them by
\* RT_DEFAULT_SECONDS_PER_SLICE (0.050).
StampSlices(payload, t) ==
  [s \in Slices |->
     [ manipulandumVisibility |-> payload[s].manipulandumVisibility,
       markerVisibility |-> payload[s].markerVisibility,
       position |-> payload[s].position,
       quaternion |-> payload[s].quaternion,
       ft |-> payload[s].ft,
       acceleration |-> payload[s].acceleration,
       bestGuessPoseTimestamp |-> t + s * 50,
       bestGuessAnalogTimestamp |-> t + s * 50 + 1 ]]

\* A record of the realtime cache: the header fields the reader looks at
\* and the realtime payload.
RTRecord(sync, id, counter, t, payload) ==
  [ epmSyncMarker |-> sync, TMIdentifier |-> id, TMCounter |-> counter,
    packetTimestamp |-> t, dataSlice |-> StampSlices(payload, t) ]

\* A record of the housekeeping cache; hk stands for the decoded
\* GripHealthAndStatusInfo fields (user, protocol, task, step, ...).
HKRecord(sync, id, counter, info) ==
  [ epmSyncMarker |-> sync, TMIdentifier |-> id, TMCounter |-> counter,
    hk |-> info ]

\* The sequence counters the producer may start from.
StartCounters == {65535}

\* What a _read of a whole record may deliver: the record as it was
\* written, or one whose header does not match because the cache is
\* misaligned or damaged (the sync marker of a transfer frame where that of
\* the telemetry header should be, or the identifier of the other packet kind).
Damages == {"none", "sync", "id"}
Delivered(record, damage, otherId) ==
  IF damage = "sync" THEN [record EXCEPT !.epmSyncMarker = EPM_TRANSFER_FRAME_SYNC_VALUE]
  ELSE IF damage = "id" THEN [record EXCEPT !.TMIdentifier = otherId]
  ELSE record

\* A read that meets the end of the file returns 0 bytes, or the part of a
\* record the producer has written so far.
ShortReadsRT == {0, rtPacketLengthInBytes \div 2}
ShortReadsHK == {0, hkPacketLengthInBytes \div 2}

\* An uninitialized unsigned short holds any 16-bit value; these stand for them.
Indeterminate16 == {0, 1}

(***************************************************************************)
(* Decoding of a record.                                                   *)
(***************************************************************************)
ExtractEPMTelemetryHeaderInfo(packet) ==
  [ epmSyncMarker |-> packet.epmSyncMarker,
    TMIdentifier |-> packet.TMIdentifier,
    TMCounter |-> packet.TMCounter ]

ExtractGripRealtimeDataInfo(packet) ==
  [ packetTimestamp |-> packet.packetTimestamp, dataSlice |-> packet.dataSlice ]

ExtractGripHealthAndStatusInfo(packet) == packet.hk

\* atan2-based angles of a quaternion; tabulated for the quaternions of the
\* model: identity gives (0,0,0), the 90 degree rotation about X gives
\* (atan2(1, 0.5), atan2(0, 1), atan2(0, 0.5)) = (1.107, 0, 0), and a
\* quaternion with a NaN component gives NaN in every angle.
QuaternionToCannonicalRotations(q) ==
  IF q = nullQuaternion THEN <<0, 0, 0>>
  ELSE IF q = rotQuaternion THEN <<1107, 0, 0>>
  ELSE <<NOT_FINITE, NOT_FINITE, NOT_FINITE>>

(***************************************************************************)
(* DexAnalogMixin: derived forces and the recursive filters.               *)
(* The decoder object is a record of its instance variables.               *)
(***************************************************************************)
\* a / b for two doubles a and b.
Quotient(a, b) == Div(a * 1000, b)

SetFilterConstant(d, filter_constant) == [d EXCEPT !.filterConstant = filter_constant]

\* The constructor: it sets the filter constant and clears the accumulators
\* it names; mem is the content of the object's storage before construction.
DexAnalogMixin(mem) ==
  [ SetFilterConstant(mem, 100) EXCEPT
      !.filteredManipulandumPosition = zeroVector,
      !.filteredManipulandumRotations = zeroVector,
      !.filteredLoadForce = zeroVector,
      !.filteredAcceleration = zeroVector,
      !.filteredCoP = <<zeroVector, zeroVector>>,
      !.filteredGripForce = 0 ]

\* Storage of an object of static storage duration: all zero.
ZeroMemory ==
  [ filterConstant |-> 0,
    filteredManipulandumPosition |-> zeroVector,
    filteredManipulandumRotations |-> zeroVector,
    filteredLoadForce |-> zeroVector,
    filteredAcceleration |-> zeroVector,
    filteredCoP |-> <<zeroVector, zeroVector>>,
    filteredGripForce |-> 0,
    filteredNormalForce |-> <<0, 0>> ]

\* ComputeCoP with the normal force accepted at the threshold itself.
ComputeCoP_AtThreshold(force, torque, threshold) ==
  IF fabs(force[1]) >= threshold
  THEN LET copY == Quotient(-torque[3], force[1])
           copZ == Quotient(-torque[2], force[1])
       IN  [ cop |-> <<0, copY, copZ>>,
             distance |-> sqrt(copZ * copZ + copY * copY) ]
  ELSE [ cop |-> missingVector, distance |-> -1000 ]

\* Returns [cop, distance].
ComputeCoP(force, torque, threshold) ==
  IF fabs(force[1]) > threshold
  THEN LET copY == Quotient(-torque[3], force[1])
           copZ == Quotient(-torque[2], force[1])
       IN  [ cop |-> <<0, copY, copZ>>,
             distance |-> sqrt(copZ * copZ + copY * copY) ]
  ELSE [ cop |-> missingVector, distance |-> -1000 ]

ComputeGripForce(force1, force2) == Div(force2[1] - force1[1], 2)

\* The load vector; its magnitude is VectorNorm of it.
ComputeLoadForce(force1, force2) ==
  <<force1[1] + force2[1], force1[2] + force2[2], force1[3] + force2[3]>>

\* ScaleVector by the constant, AddVectors of the sample, ScaleVector by
\* 1.0 / (1.0 + constant), component by component.
RecursiveFilter(filtered, sample, k) ==
  ScaleVector(AddVectors(ScaleVector(filtered, k, 1), sample), 1, 1 + k)

\* Each filter returns the decoder with the channel's accumulator updated;
\* the filtered value handed back to the caller is that accumulator.
FilterLoadForce(d, load_force) ==
  [d EXCEPT !.filteredLoadForce = RecursiveFilter(@, load_force, d.filterConstant)]

FilterCoP(d, which_ati, center_of_pressure) ==
  [d EXCEPT !.filteredCoP[which_ati] =
              RecursiveFilter(@, center_of_pressure, d.filterConstant)]

FilterManipulandumPosition(d, position) ==
  [d EXCEPT !.filteredManipulandumPosition =
              RecursiveFilter(@, position, d.filterConstant)]

FilterManipulandumRotations(d, rotations) ==
  [d EXCEPT !.filteredManipulandumRotations =
              RecursiveFilter(@, rotations, d.filterConstant)]

FilterAcceleration(d, acceleration) ==
  [d EXCEPT !.filteredAcceleration =
              RecursiveFilter(@, acceleration, d.filterConstant)]

FilterGripForce(d, grip_force) ==
  [d EXCEPT !.filteredGripForce =
              Div(grip_force + d.filterConstant * @, 1 + d.filterConstant)]

FilterNormalForce(d, normal_force, ati) ==
  IF ati > N_FORCE_TRANSDUCERS \/ ati < 1 THEN d
  ELSE [d EXCEPT !.filteredNormalForce[ati] =
                   Div(normal_force + d.filterConstant * @, 1 + d.filterConstant)]

(***************************************************************************)
(* State.                                                                  *)
(***************************************************************************)
VARIABLES
  \* GripMMIGlobals.h: the sample buffers, indexed by frame, and the frame count.
  ManipulandumPosition, ManipulandumRotations, Acceleration, GripForce,
  LoadForce, NormalForce, LoadForceMagnitude, CenterOfPressure,
  RealMarkerTime, RealAnalogTime, MarkerVisibility, ManipulandumVisibility,
  FrameVisibility, WristVisibility, PacketReceived,
  nFrames,
  \* The decoder object dex.
  dex,
  \* Function statics of GetGripRT and of GetLatestGripHK.
  previousTMCounterRT, buffers_full_alert, previousTMCounterHK,
  \* Locals of the call in progress, and where it is.
  pc, fid, retry_count, bytes_read, packets_read, packet, epmHeader, rt,
  previous_packet_timestamp, slice, return_value,
  \* The caller's GripHealthAndStatusInfo structure.
  hk,
  \* The two cache files, the read offset (in records) of the open file and
  \* the producer's next sequence counters.
  rtCache, hkCache, filePosition, rtNextCounter, hkNextCounter,
  \* Bookkeeping: why the program exited; the last call made ("rt", "hk",
  \* or "rt_full" for a GetGripRT that took the buffers-full return); the
  \* length of the realtime cache at the previous realtime pass and the
  \* frames that pass left in the buffers; the number of calls made.
  exit_cause, last_call, cacheLengthSeen, framesSeen, calls,
  \* A routine of the libraries called on its own: the DexAnalogMixin
  \* instance it is called on, its arguments and what it hands back.
  mixin, arguments, returned

buffers ==
  << ManipulandumPosition, ManipulandumRotations, Acceleration, GripForce,
     LoadForce, NormalForce, LoadForceMagnitude, CenterOfPressure,
     RealMarkerTime, RealAnalogTime, MarkerVisibility, ManipulandumVisibility,
     FrameVisibility, WristVisibility, PacketReceived >>

statics == <<previousTMCounterRT, buffers_full_alert, previousTMCounterHK>>

locals ==
  << fid, retry_count, bytes_read, packets_read, packet, epmHeader, rt,
     previous_packet_timestamp, slice >>

caches == <<rtCache, hkCache, rtNextCounter, hkNextCounter>>

program ==
  << buffers, nFrames, dex, statics, pc, locals, return_value, hk, caches,
     filePosition, exit_cause, last_call, cacheLengthSeen, framesSeen, calls >>

pure == <<mixin, arguments, returned>>

vars == <<program, pure>>

Frames == 0 .. (MAX_FRAMES - 1)
Markers == 0 .. (CODA_MARKERS - 1)

\* What an unset local holds in the model until the code assigns it.
UnsetHeader == [epmSyncMarker |-> <<0, 0>>, TMIdentifier |-> 0, TMCounter |-> 0]
UnsetPacket ==
  [ epmSyncMarker |-> <<0, 0>>, TMIdentifier |-> 0, TMCounter |-> 0,
    packetTimestamp |-> 0, dataSlice |-> StampSlices(Payload, 0), hk |-> 0 ]
UnsetRT == [packetTimestamp |-> 0, dataSlice |-> StampSlices(Payload, 0)]

\* No library routine is being called on its own.
NoCall == [function |-> "none"]

\* The program after construction, whatever the realtime cache holds.
ProgramStart ==
  /\ ManipulandumPosition = [f \in Frames |-> zeroVector]
  /\ ManipulandumRotations = [f \in Frames |-> zeroVector]
  /\ Acceleration = [f \in Frames |-> zeroVector]
  /\ GripForce = [f \in Frames |-> 0]
  /\ LoadForce = [f \in Frames |-> zeroVector]
  /\ NormalForce = <<[f \in Frames |-> 0], [f \in Frames |-> 0]>>
  /\ LoadForceMagnitude = [f \in Frames |-> 0]
  /\ CenterOfPressure = <<[f \in Frames |-> zeroVector], [f \in Frames |-> zeroVector]>>
  /\ RealMarkerTime = [f \in Frames |-> 0]
  /\ RealAnalogTime = [f \in Frames |-> 0]
  /\ MarkerVisibility = [f \in Frames |-> [mrk \in Markers |-> 0]]
  /\ ManipulandumVisibility = [f \in Frames |-> 0]
  /\ FrameVisibility = [f \in Frames |-> 0]
  /\ WristVisibility = [f \in Frames |-> 0]
  /\ PacketReceived = [f \in Frames |-> 0]
  /\ nFrames = 0
  /\ dex = DexAnalogMixin(ZeroMemory)
  /\ previousTMCounterRT = 0
  /\ buffers_full_alert = FALSE
  /\ previousTMCounterHK = 0
  /\ pc = "idle"
  /\ fid = -1
  /\ retry_count = 0
  /\ bytes_read = 0
  /\ packets_read = 0
  /\ packet = UnsetPacket
  /\ epmHeader = UnsetHeader
  /\ rt = UnsetRT
  /\ previous_packet_timestamp = 0
  /\ slice = 0
  /\ return_value = FALSE_
  /\ hk = 0
  /\ hkCache = <<>>
  /\ filePosition = 0
  /\ hkNextCounter \in StartCounters
  /\ exit_cause = "none"
  /\ last_call = "none"
  /\ cacheLengthSeen = 0
  /\ framesSeen = <<>>
  /\ calls = 0

\* The program after construction, the cache files empty.
ProgramInit ==
  /\ ProgramStart
  /\ rtCache = <<>>
  /\ rtNextCounter \in StartCounters

Init ==
  /\ ProgramInit
  /\ mixin = DexAnalogMixin(ZeroMemory)
  /\ arguments = NoCall
  /\ returned = NoCall

(***************************************************************************)
(* The external producer of the cache files.                               *)
(***************************************************************************)
\* The records the producer may append to the realtime cache.
RTAppendChoices(counter) ==
  { RTRecord(EPM_TELEMETRY_SYNC_VALUE, GRIP_RT_ID, counter, t, Payload) :
      t \in PacketTimestamps }

\* The record the producer appends to the housekeeping cache; its content
\* is the number of the record, so that no two records decode alike.
HKAppendChoices(counter) ==
  { HKRecord(EPM_TELEMETRY_SYNC_VALUE, GRIP_HK_ID, counter, Len(hkCache) + 1) }

\* The reader meets the cache only in its _read calls, which see whatever
\* the file holds then; an append that lands during a call is seen by the
\* reader exactly as one that landed before it, so appends are taken
\* between calls.
AppendRT ==
  /\ pc = "idle"
  /\ calls < MaxCalls
  /\ Len(rtCache) < MaxRecords
  /\ \E r \in RTAppendChoices(rtNextCounter) : rtCache' = Append(rtCache, r)
  /\ rtNextCounter' = (rtNextCounter + 1) % TMCounterModulus
  /\ UNCHANGED pure
  /\ UNCHANGED << buffers, nFrames, dex, statics, pc, locals, return_value, hk,
                  hkCache, hkNextCounter, filePosition, exit_cause,
                  last_call, cacheLengthSeen, framesSeen, calls >>

AppendHK ==
  /\ pc = "idle"
  /\ calls < MaxCalls
  /\ Len(hkCache) < MaxRecords
  /\ \E r \in HKAppendChoices(hkNextCounter) : hkCache' = Append(hkCache, r)
  /\ hkNextCounter' = (hkNextCounter + 1) % TMCounterModulus
  /\ UNCHANGED pure
  /\ UNCHANGED << buffers, nFrames, dex, statics, pc, locals, return_value, hk,
                  rtCache, rtNextCounter, filePosition, exit_cause,
                  last_call, cacheLengthSeen, framesSeen, calls >>

(***************************************************************************)
(* GetGripRT (GripMMIData.cpp:70-318).                                     *)
(***************************************************************************)
\* ResetBuffers: the value it gives nFrames.
ResetBuffers == 0

\* Mutant: the early return is never taken.
BuffersWereFull_Never(alert) == FALSE

\* The test of the early return: were the buffers full the last time through?
BuffersWereFull(alert) == alert

\* Mutant: the retry loop runs once more.
RetryLoopContinues_OneMore(count) == count <= MAX_OPEN_CACHE_RETRIES

\* The condition of the open retry loop.
RetryLoopContinues(count) == count < MAX_OPEN_CACHE_RETRIES

\* Mutant: only an empty read ends the loop.
ShortReadRT_EmptyOnly(n) == n = 0

\* The end-of-file test of the realtime read loop.
ShortReadRT(n) == rtPacketLengthInBytes # n

\* Mutant: the identifier is not looked at.
RecognizedRT_SyncOnly(header) == header.epmSyncMarker = EPM_TELEMETRY_SYNC_VALUE

\* The header test of the realtime read loop: is this a realtime packet?
RecognizedRT(header) ==
  ~(header.epmSyncMarker # EPM_TELEMETRY_SYNC_VALUE \/ header.TMIdentifier # GRIP_RT_ID)

\* Mutant: a difference equal to the threshold counts as a break.
StreamBreak_AtThreshold(packetTimestamp, previous) ==
  (packetTimestamp - previous) >= PACKET_STREAM_BREAK_THRESHOLD

\* Has there been a break in the arrival of the packets?
StreamBreak(packetTimestamp, previous) ==
  (packetTimestamp - previous) > PACKET_STREAM_BREAK_THRESHOLD

\* Mutant: a pass starts from the timestamp the pass before ended with.
PassStartTimestamp_Kept(previous) == previous

\* double previous_packet_timestamp = 0.0, at the start of each pass.
PassStartTimestamp(previous) == 0

\* Mutant: the loop that inserts blank frames runs to the last frame.
BlankLoopContinues_ToCapacity(count, n) == count < MAX_PLOT_STEP /\ n < MAX_FRAMES

\* Mutant: the loop that inserts blank frames stops one frame early.
BlankLoopContinues_OneFewer(count, n) ==
  count < MAX_PLOT_STEP - 1 /\ n < MAX_FRAMES - 1

\* The condition of the loop that inserts blank frames.
BlankLoopContinues(count, n) == count < MAX_PLOT_STEP /\ n < MAX_FRAMES - 1

\* The frame count the blank-frame loop ends with, started at count and n.
RECURSIVE BlankLoop(_, _)
BlankLoop(count, n) ==
  IF BlankLoopContinues(count, n) THEN BlankLoop(count + 1, n + 1) ELSE n

\* Mutant: the loop over the slices does not look at the frame count.
SliceLoopContinues_AllSlices(s, n) == s < RT_SLICES_PER_PACKET

\* The condition of the loop over the slices of a packet.
SliceLoopContinues(s, n) == s < RT_SLICES_PER_PACKET /\ n < MAX_FRAMES

\* Mutant: the position branch is taken for every slice.
ManipulandumSeen_Always(visibility) == TRUE

\* The test that selects the position branch of a slice.
ManipulandumSeen(visibility) == visibility # 0

\* The test that sets the manipulandum visibility trace of a slice.
ManipulandumFlag(visibility) == (visibility % 2) = 1

\* Mutant: a monotonic comparison of the counters.
CounterChanged_Greater(previous, counter) == counter > previous

\* The new-data test that ends both readers.
CounterChanged(previous, counter) == previous # counter

\* markerVisibility[0] & bit || markerVisibility[1] & bit, for the bit of mrk.
SeenByEitherCoda(s, mrk) ==
  mrk \in s.markerVisibility[1] \/ mrk \in s.markerVisibility[2]

\* The count the loop over the markers first .. last ends with.
CountSeen(s, first, last) ==
  Cardinality({mrk \in first .. last : SeenByEitherCoda(s, mrk)})

\* The value of the trace of one marker: a level that sets the traces of
\* the three groups apart, or the missing value.
MarkerTrace(s, mrk) ==
  IF ~SeenByEitherCoda(s, mrk) THEN MISSING_DOUBLE
  ELSE IF mrk <= MANIPULANDUM_LAST_MARKER THEN (mrk + 1) * 1000
  ELSE IF mrk <= FRAME_LAST_MARKER THEN (mrk + 3) * 1000
  ELSE (mrk + 5) * 1000

\* Mutant: the frame counts as visible with three of its markers.
FrameSeen_ThreeMarkers(count) == count >= 3

\* The tests on the counts of visible frame and wrist markers.
FrameSeen(count) == count = 4
WristSeen(count) == count >= 3

\* Mutant: the center of pressure is filtered whatever ComputeCoP returned.
CoPValid_Always(cop_distance) == TRUE

\* if ( cop_distance >= 0.0 ), the test that lets a center of pressure into
\* its filter.
CoPValid(cop_distance) == cop_distance >= 0

\* The values one slice gives to the frame it fills, and the decoder after
\* the filters it runs, in the order of the code.
DecodeSlice(d, s) ==
  LET seen == ManipulandumSeen(s.manipulandumVisibility)
      scaled == << Div(s.position[1], 10), Div(s.position[2], 10), Div(s.position[3], 10) >>
      rotations == QuaternionToCannonicalRotations(s.quaternion)
      d1 == IF seen THEN FilterManipulandumPosition(d, scaled) ELSE d
      d2 == IF seen /\ _finite(rotations[1])
            THEN FilterManipulandumRotations(d1, rotations) ELSE d1
      d3 == FilterGripForce(d2,
              ToFloat(ComputeGripForce(s.ft[LEFT_ATI].force, s.ft[RIGHT_ATI].force)))
      d4 == FilterNormalForce(d3, -ToFloat(s.ft[LEFT_ATI].force[1]), LEFT_ATI)
      d5 == FilterNormalForce(d4, ToFloat(s.ft[RIGHT_ATI].force[1]), RIGHT_ATI)
      d6 == FilterLoadForce(d5, ComputeLoadForce(s.ft[1].force, s.ft[2].force))
      cop1 == ComputeCoP(s.ft[1].force, s.ft[1].torque, COP_MIN_GRIP)
      d7 == IF CoPValid(cop1.distance) THEN FilterCoP(d6, 1, cop1.cop) ELSE d6
      cop2 == ComputeCoP(s.ft[2].force, s.ft[2].torque, COP_MIN_GRIP)
      d8 == IF CoPValid(cop2.distance) THEN FilterCoP(d7, 2, cop2.cop) ELSE d7
      d9 == FilterAcceleration(d8, << ToFloat(s.acceleration[1]),
                                      ToFloat(s.acceleration[2]),
                                      ToFloat(s.acceleration[3]) >>)
  IN  [ dex |-> d9,
        RealMarkerTime |-> s.bestGuessPoseTimestamp,
        RealAnalogTime |-> s.bestGuessAnalogTimestamp,
        ManipulandumPosition |->
          IF seen THEN d1.filteredManipulandumPosition ELSE missingVector,
        ManipulandumRotations |->
          IF seen
          THEN (IF _finite(rotations[1]) THEN d2.filteredManipulandumRotations
                ELSE rotations)
          ELSE missingVector,
        GripForce |-> ToFloat(d3.filteredGripForce),
        NormalForceLeft |-> ToFloat(d4.filteredNormalForce[LEFT_ATI]),
        NormalForceRight |-> ToFloat(d5.filteredNormalForce[RIGHT_ATI]),
        LoadForce |-> d6.filteredLoadForce,
        LoadForceMagnitude |-> VectorNorm(d6.filteredLoadForce),
        CenterOfPressure1 |->
          IF CoPValid(cop1.distance) THEN d7.filteredCoP[1] ELSE cop1.cop,
        CenterOfPressure2 |->
          IF CoPValid(cop2.distance) THEN d8.filteredCoP[2] ELSE cop2.cop,
        Acceleration |-> d9.filteredAcceleration,
        MarkerVisibility |-> [mrk \in Markers |-> MarkerTrace(s, mrk)],
        ManipulandumVisibility |->
          IF ManipulandumFlag(s.manipulandumVisibility) THEN 10000 ELSE MISSING_DOUBLE,
        FrameVisibility |->
          IF FrameSeen(CountSeen(s, FRAME_FIRST_MARKER, FRAME_LAST_MARKER))
          THEN 30000 ELSE MISSING_DOUBLE,
        WristVisibility |->
          IF WristSeen(CountSeen(s, WRIST_FIRST_MARKER, WRIST_LAST_MARKER))
          THEN 50000 ELSE MISSING_DOUBLE,
        PacketReceived |-> -10000 ]

\* The call: the early return when the buffers were full, otherwise
\* ResetBuffers and the start of the open retry loop.  d is the decoder the
\* call leaves behind.
EnterRT(d) ==
  /\ pc = "idle"
  /\ calls < MaxCalls
  /\ calls' = calls + 1
  /\ dex' = d
  /\ IF BuffersWereFull(buffers_full_alert)
     THEN /\ return_value' = FALSE_
          /\ last_call' = "rt_full"
          /\ UNCHANGED << nFrames, pc, locals, filePosition >>
     ELSE /\ nFrames' = ResetBuffers
          /\ pc' = "rt_open"
          /\ retry_count' = 0
          /\ last_call' = "rt"
          /\ fid' = -1
          /\ bytes_read' = 0
          /\ packets_read' = 0
          /\ packet' = UnsetPacket
          /\ epmHeader' = UnsetHeader
          /\ rt' = UnsetRT
          /\ previous_packet_timestamp' = PassStartTimestamp(previous_packet_timestamp)
          /\ slice' = 0
          /\ filePosition' = 0
          /\ UNCHANGED return_value
  /\ UNCHANGED pure
  /\ UNCHANGED << buffers, statics, hk, caches, exit_cause, cacheLengthSeen, framesSeen >>

\* Mutant: each call constructs the decoder anew.
GetGripRT_Enter_Reconstructs == EnterRT(DexAnalogMixin(dex))

GetGripRT_Enter == EnterRT(dex)

\* One pass of the retry loop: _sopen, break on success, Sleep otherwise;
\* after the last failure the fid < 0 test ends the program.
GetGripRT_Open ==
  /\ pc = "rt_open"
  /\ RetryLoopContinues(retry_count)
  /\ \E opened \in BOOLEAN :
       IF opened
       THEN /\ fid' = 3
            /\ pc' = "rt_read"
            /\ retry_count' = 0
            /\ UNCHANGED exit_cause
       ELSE /\ fid' = -1
            /\ retry_count' = retry_count + 1
            /\ IF RetryLoopContinues(retry_count + 1)
               THEN pc' = "rt_open" /\ UNCHANGED exit_cause
               ELSE pc' = "exit" /\ exit_cause' = "open"
  /\ previous_packet_timestamp' = PassStartTimestamp(previous_packet_timestamp)
  /\ packets_read' = 0
  /\ filePosition' = 0
  /\ UNCHANGED pure
  /\ UNCHANGED << buffers, nFrames, dex, statics, bytes_read, packet, epmHeader,
                  rt, slice, return_value, hk, caches, last_call,
                  cacheLengthSeen, framesSeen, calls >>

\* Mutant: when the buffers are full the call returns without closing.
GetGripRT_LoopExit_Returns ==
  /\ pc = "rt_read"
  /\ ~(nFrames < MAX_FRAMES)
  /\ pc' = "idle"
  /\ UNCHANGED pure
  /\ UNCHANGED << buffers, nFrames, dex, statics, locals, return_value, hk, caches,
                  filePosition, exit_cause, last_call, cacheLengthSeen, framesSeen,
                  calls >>

\* The read loop ends because the buffers are full.
GetGripRT_LoopExit ==
  /\ pc = "rt_read"
  /\ ~(nFrames < MAX_FRAMES)
  /\ pc' = "rt_close"
  /\ UNCHANGED pure
  /\ UNCHANGED << buffers, nFrames, dex, statics, locals, return_value, hk, caches,
                  filePosition, exit_cause, last_call, cacheLengthSeen, framesSeen,
                  calls >>

\* _read fails: the program ends.
GetGripRT_ReadError ==
  /\ pc = "rt_read"
  /\ nFrames < MAX_FRAMES
  /\ bytes_read' = -1
  /\ pc' = "exit"
  /\ exit_cause' = "read"
  /\ UNCHANGED pure
  /\ UNCHANGED << buffers, nFrames, dex, statics, fid, retry_count, packets_read,
                  packet, epmHeader, rt, previous_packet_timestamp, slice,
                  return_value, hk, caches, filePosition, last_call,
                  cacheLengthSeen, framesSeen, calls >>

\* Mutant: the blank frames are written from the start of the arrays.
Blank_FromStart(array, lo, hi, value) ==
  [f \in Frames |-> IF f < hi THEN value ELSE array[f]]

\* The frame arrays after the blank frames lo .. hi-1 are written.
Blank(array, lo, hi, value) ==
  [f \in Frames |-> IF lo <= f /\ f < hi THEN value ELSE array[f]]

\* _read returns a whole record or meets the end of the file; then the
\* end-of-file test, the header test, the extraction of the packet and the
\* insertion of blank frames at a stream break.
GetGripRT_Read ==
  /\ pc = "rt_read"
  /\ nFrames < MAX_FRAMES
  /\ \E n \in (IF filePosition < Len(rtCache) THEN {rtPacketLengthInBytes}
               ELSE ShortReadsRT),
        damage \in (IF filePosition < Len(rtCache) THEN Damages ELSE {"none"}) :
       LET whole == n = rtPacketLengthInBytes /\ filePosition < Len(rtCache)
           buffer == IF whole
                     THEN Delivered(rtCache[filePosition + 1], damage, GRIP_HK_ID)
                            @@ [hk |-> 0]
                     ELSE packet
           header == ExtractEPMTelemetryHeaderInfo(buffer)
           data == ExtractGripRealtimeDataInfo(buffer)
           blanked == IF StreamBreak(data.packetTimestamp, previous_packet_timestamp)
                      THEN BlankLoop(0, nFrames) ELSE nFrames
       IN  /\ bytes_read' = n
           /\ packet' = buffer
           /\ filePosition' = IF whole THEN filePosition + 1 ELSE filePosition
           /\ IF ShortReadRT(n)
              THEN /\ pc' = "rt_close"
                   /\ UNCHANGED << buffers, nFrames, packets_read, epmHeader, rt,
                                   previous_packet_timestamp, slice, exit_cause >>
              ELSE /\ packets_read' = packets_read + 1
                   /\ epmHeader' = header
                   /\ IF ~RecognizedRT(header)
                      THEN /\ pc' = "exit"
                           /\ exit_cause' = "packet"
                           /\ UNCHANGED << buffers, nFrames, rt,
                                           previous_packet_timestamp, slice >>
                      ELSE /\ rt' = data
                           /\ nFrames' = blanked
                           /\ ManipulandumPosition' =
                                Blank(ManipulandumPosition, nFrames, blanked, missingVector)
                           /\ ManipulandumRotations' =
                                Blank(ManipulandumRotations, nFrames, blanked, missingVector)
                           /\ GripForce' = Blank(GripForce, nFrames, blanked, MISSING_DOUBLE)
                           /\ NormalForce' =
                                << Blank(NormalForce[LEFT_ATI], nFrames, blanked, MISSING_DOUBLE),
                                   Blank(NormalForce[RIGHT_ATI], nFrames, blanked, MISSING_DOUBLE) >>
                           /\ Acceleration' =
                                Blank(Acceleration, nFrames, blanked, missingVector)
                           /\ MarkerVisibility' =
                                Blank(MarkerVisibility, nFrames, blanked,
                                      [mrk \in Markers |-> MISSING_DOUBLE])
                           /\ ManipulandumVisibility' =
                                Blank(ManipulandumVisibility, nFrames, blanked, MISSING_DOUBLE)
                           /\ FrameVisibility' =
                                Blank(FrameVisibility, nFrames, blanked, MISSING_DOUBLE)
                           /\ WristVisibility' =
                                Blank(WristVisibility, nFrames, blanked, MISSING_DOUBLE)
                           /\ PacketReceived' =
                                Blank(PacketReceived, nFrames, blanked, MISSING_DOUBLE)
                           /\ RealMarkerTime' =
                                Blank(RealMarkerTime, nFrames, blanked, MISSING_DOUBLE)
                           /\ UNCHANGED << LoadForce, LoadForceMagnitude,
                                           CenterOfPressure, RealAnalogTime >>
                           /\ previous_packet_timestamp' = data.packetTimestamp
                           /\ slice' = 0
                           /\ pc' = IF SliceLoopContinues(0, blanked)
                                    THEN "rt_slice" ELSE "rt_read"
                           /\ UNCHANGED exit_cause
  /\ UNCHANGED pure
  /\ UNCHANGED << dex, statics, fid, retry_count, return_value, hk, caches,
                  last_call, cacheLengthSeen, framesSeen, calls >>

\* One pass of the slice loop: the frame nFrames is filled from the slice
\* and the frame count advances.
GetGripRT_Slice ==
  /\ pc = "rt_slice"
  /\ SliceLoopContinues(slice, nFrames)
  /\ \E r \in {DecodeSlice(dex, rt.dataSlice[slice])} :
         /\ dex' = r.dex
         /\ RealMarkerTime' = [RealMarkerTime EXCEPT ![nFrames] = r.RealMarkerTime]
         /\ RealAnalogTime' = [RealAnalogTime EXCEPT ![nFrames] = r.RealAnalogTime]
         /\ ManipulandumPosition' =
              [ManipulandumPosition EXCEPT ![nFrames] = r.ManipulandumPosition]
         /\ ManipulandumRotations' =
              [ManipulandumRotations EXCEPT ![nFrames] = r.ManipulandumRotations]
         /\ GripForce' = [GripForce EXCEPT ![nFrames] = r.GripForce]
         /\ NormalForce' = [NormalForce EXCEPT ![LEFT_ATI][nFrames] = r.NormalForceLeft,
                                               ![RIGHT_ATI][nFrames] = r.NormalForceRight]
         /\ LoadForce' = [LoadForce EXCEPT ![nFrames] = r.LoadForce]
         /\ LoadForceMagnitude' =
              [LoadForceMagnitude EXCEPT ![nFrames] = r.LoadForceMagnitude]
         /\ CenterOfPressure' =
              [CenterOfPressure EXCEPT ![1][nFrames] = r.CenterOfPressure1,
                                       ![2][nFrames] = r.CenterOfPressure2]
         /\ Acceleration' = [Acceleration EXCEPT ![nFrames] = r.Acceleration]
         /\ MarkerVisibility' = [MarkerVisibility EXCEPT ![nFrames] = r.MarkerVisibility]
         /\ ManipulandumVisibility' =
              [ManipulandumVisibility EXCEPT ![nFrames] = r.ManipulandumVisibility]
         /\ FrameVisibility' = [FrameVisibility EXCEPT ![nFrames] = r.FrameVisibility]
         /\ WristVisibility' = [WristVisibility EXCEPT ![nFrames] = r.WristVisibility]
         /\ PacketReceived' = [PacketReceived EXCEPT ![nFrames] = r.PacketReceived]
  /\ nFrames' = nFrames + 1
  /\ slice' = slice + 1
  /\ pc' = IF SliceLoopContinues(slice + 1, nFrames + 1) THEN "rt_slice" ELSE "rt_read"
  /\ UNCHANGED pure
  /\ UNCHANGED << statics, fid, retry_count, bytes_read, packets_read, packet,
                  epmHeader, rt, previous_packet_timestamp, return_value, hk,
                  caches, filePosition, exit_cause, last_call,
                  cacheLengthSeen, framesSeen, calls >>

\* The counter the final test reads: that of the last header extracted in
\* this call, or, when no record was read, whatever the uninitialized local
\* epmHeader holds.
CounterRead == IF packets_read > 0 THEN {epmHeader.TMCounter} ELSE Indeterminate16

\* The values frame f holds, one per buffer.
FrameValues(f) ==
  << ManipulandumPosition[f], ManipulandumRotations[f], Acceleration[f],
     GripForce[f], LoadForce[f], NormalForce[LEFT_ATI][f],
     NormalForce[RIGHT_ATI][f], LoadForceMagnitude[f],
     CenterOfPressure[LEFT_ATI][f], CenterOfPressure[RIGHT_ATI][f],
     RealMarkerTime[f], RealAnalogTime[f], MarkerVisibility[f],
     ManipulandumVisibility[f], FrameVisibility[f], WristVisibility[f],
     PacketReceived[f] >>

\* The frames the buffers hold: nFrames of them, in order.
FramesLeft == [i \in 1 .. nFrames |-> FrameValues(i - 1)]

\* _close, the buffers-full alert and the new-data test.
GetGripRT_Close ==
  /\ pc = "rt_close"
  /\ \E return_code \in {0, -1} :
       IF return_code # 0
       THEN /\ pc' = "exit"
            /\ exit_cause' = "close"
            /\ UNCHANGED << statics, fid, bytes_read, return_value, cacheLengthSeen, framesSeen >>
       ELSE /\ fid' = -1
            /\ bytes_read' = 0
            /\ buffers_full_alert' = (buffers_full_alert \/ nFrames >= MAX_FRAMES)
            /\ \E counter \in CounterRead :
                 IF CounterChanged(previousTMCounterRT, counter)
                 THEN previousTMCounterRT' = counter /\ return_value' = TRUE_
                 ELSE UNCHANGED previousTMCounterRT /\ return_value' = FALSE_
            /\ pc' = "idle"
            /\ cacheLengthSeen' = Len(rtCache)
            /\ framesSeen' = FramesLeft
            /\ UNCHANGED << previousTMCounterHK, exit_cause >>
  /\ UNCHANGED pure
  /\ UNCHANGED << buffers, nFrames, dex, retry_count, packets_read,
                  packet, epmHeader, rt, previous_packet_timestamp, slice, hk,
                  caches, filePosition, last_call, calls >>

(***************************************************************************)
(* GetLatestGripHK (GripMMIData.cpp:378-454).                              *)
(***************************************************************************)
\* The end-of-file test of the housekeeping read loop.
ShortReadHK(n) == n < hkPacketLengthInBytes

\* Mutant: the read loop stops after the first record.
HKLoopContinues_FirstOnly(n) == n < 1

\* while ( true ): after its n-th record the read loop goes on to the next.
HKLoopContinues(n) == TRUE

\* The header test of the housekeeping read loop.
RecognizedHK(header) ==
  ~(header.epmSyncMarker # EPM_TELEMETRY_SYNC_VALUE \/ header.TMIdentifier # GRIP_HK_ID)

GetLatestGripHK_Enter ==
  /\ pc = "idle"
  /\ calls < MaxCalls
  /\ calls' = calls + 1
  /\ pc' = "hk_open"
  /\ retry_count' = 0
  /\ last_call' = "hk"
  /\ fid' = -1
  /\ bytes_read' = 0
  /\ packets_read' = 0
  /\ packet' = UnsetPacket
  /\ epmHeader' = UnsetHeader
  /\ filePosition' = 0
  /\ UNCHANGED pure
  /\ UNCHANGED << buffers, nFrames, dex, statics, rt, previous_packet_timestamp,
                  slice, return_value, hk, caches, exit_cause, cacheLengthSeen, framesSeen >>

GetLatestGripHK_Open ==
  /\ pc = "hk_open"
  /\ RetryLoopContinues(retry_count)
  /\ \E opened \in BOOLEAN :
       IF opened
       THEN /\ fid' = 3
            /\ pc' = "hk_read"
            /\ retry_count' = 0
            /\ UNCHANGED exit_cause
       ELSE /\ fid' = -1
            /\ retry_count' = retry_count + 1
            /\ IF RetryLoopContinues(retry_count + 1)
               THEN pc' = "hk_open" /\ UNCHANGED exit_cause
               ELSE pc' = "exit" /\ exit_cause' = "open"
  /\ packets_read' = 0
  /\ UNCHANGED pure
  /\ UNCHANGED << buffers, nFrames, dex, statics, bytes_read, packet, epmHeader,
                  rt, previous_packet_timestamp, slice, return_value, hk, caches,
                  filePosition, last_call, cacheLengthSeen, framesSeen, calls >>

GetLatestGripHK_ReadError ==
  /\ pc = "hk_read"
  /\ bytes_read' = -1
  /\ pc' = "exit"
  /\ exit_cause' = "read"
  /\ UNCHANGED pure
  /\ UNCHANGED << buffers, nFrames, dex, statics, fid, retry_count, packets_read,
                  packet, epmHeader, rt, previous_packet_timestamp, slice,
                  return_value, hk, caches, filePosition, last_call,
                  cacheLengthSeen, framesSeen, calls >>

\* _read returns a whole record or meets the end of the file; then the
\* end-of-file test, the header test and the extraction into the caller's
\* structure.
GetLatestGripHK_Read ==
  /\ pc = "hk_read"
  /\ \E n \in (IF filePosition < Len(hkCache) THEN {hkPacketLengthInBytes}
               ELSE ShortReadsHK),
        damage \in (IF filePosition < Len(hkCache) THEN Damages ELSE {"none"}) :
       LET whole == n = hkPacketLengthInBytes /\ filePosition < Len(hkCache)
           buffer == IF whole
                     THEN Delivered(hkCache[filePosition + 1], damage, GRIP_RT_ID)
                            @@ [packetTimestamp |-> 0, dataSlice |-> UnsetRT.dataSlice]
                     ELSE packet
           header == ExtractEPMTelemetryHeaderInfo(buffer)
       IN  /\ bytes_read' = n
           /\ packet' = buffer
           /\ filePosition' = IF whole THEN filePosition + 1 ELSE filePosition
           /\ IF ShortReadHK(n)
              THEN /\ pc' = "hk_close"
                   /\ UNCHANGED << packets_read, epmHeader, hk, exit_cause >>
              ELSE /\ packets_read' = packets_read + 1
                   /\ epmHeader' = header
                   /\ IF ~RecognizedHK(header)
                      THEN /\ pc' = "exit"
                           /\ exit_cause' = "packet"
                           /\ UNCHANGED hk
                      ELSE /\ hk' = ExtractGripHealthAndStatusInfo(buffer)
                           /\ pc' = IF HKLoopContinues(packets_read + 1)
                                    THEN "hk_read" ELSE "hk_close"
                           /\ UNCHANGED exit_cause
  /\ UNCHANGED pure
  /\ UNCHANGED << buffers, nFrames, dex, statics, fid, retry_count, rt,
                  previous_packet_timestamp, slice, return_value, caches,
                  last_call, cacheLengthSeen, framesSeen, calls >>

GetLatestGripHK_Close ==
  /\ pc = "hk_close"
  /\ \E return_code \in {0, -1} :
       IF return_code # 0
       THEN /\ pc' = "exit"
            /\ exit_cause' = "close"
            /\ UNCHANGED << statics, fid, bytes_read, return_value >>
       ELSE /\ fid' = -1
            /\ bytes_read' = 0
            /\ \E counter \in CounterRead :
                 IF CounterChanged(previousTMCounterHK, counter)
                 THEN previousTMCounterHK' = counter /\ return_value' = TRUE_
                 ELSE UNCHANGED previousTMCounterHK /\ return_value' = FALSE_
            /\ pc' = "idle"
            /\ UNCHANGED << previousTMCounterRT, buffers_full_alert, exit_cause >>
  /\ UNCHANGED pure
  /\ UNCHANGED << buffers, nFrames, dex, retry_count, packets_read,
                  packet, epmHeader, rt, previous_packet_timestamp, slice, hk,
                  caches, filePosition, last_call, cacheLengthSeen, framesSeen,
                  calls >>

(***************************************************************************)
(* The specification.                                                      *)
(***************************************************************************)
Next ==
  \/ AppendRT
  \/ AppendHK
  \/ GetGripRT_Enter
  \/ GetGripRT_Open
  \/ GetGripRT_LoopExit
  \/ GetGripRT_ReadError
  \/ GetGripRT_Read
  \/ GetGripRT_Slice
  \/ GetGripRT_Close
  \/ GetLatestGripHK_Enter
  \/ GetLatestGripHK_Open
  \/ GetLatestGripHK_ReadError
  \/ GetLatestGripHK_Read
  \/ GetLatestGripHK_Close

Spec == Init /\ [][Next]_vars

(***************************************************************************)
(* The program started on a realtime cache that the producer has filled    *)
(* before, and does not append to during the run.                          *)
(***************************************************************************)
\* The packet timestamps of the stored caches: two stream breaks in a row,
\* a break after a packet at 0, and no break.
StoredTimestamps == { <<3000, 6000>>, <<0, 3000>>, <<1000, 1000>> }

\* The cache with records stamped timestamps, counted from counter on.
StoredCache(timestamps, counter) ==
  [i \in 1 .. Len(timestamps) |->
     RTRecord(EPM_TELEMETRY_SYNC_VALUE, GRIP_RT_ID,
              (counter + i - 1) % TMCounterModulus, timestamps[i], Payload)]

InitStored ==
  /\ ProgramStart
  /\ \E timestamps \in StoredTimestamps, counter \in StartCounters :
       /\ rtCache = StoredCache(timestamps, counter)
       /\ rtNextCounter = (counter + Len(timestamps)) % TMCounterModulus
  /\ mixin = DexAnalogMixin(ZeroMemory)
  /\ arguments = NoCall
  /\ returned = NoCall

NextStored ==
  \/ GetGripRT_Enter
  \/ GetGripRT_Open
  \/ GetGripRT_LoopExit
  \/ GetGripRT_ReadError
  \/ GetGripRT_Read
  \/ GetGripRT_Slice
  \/ GetGripRT_Close
  \/ GetLatestGripHK_Enter
  \/ GetLatestGripHK_Open
  \/ GetLatestGripHK_ReadError
  \/ GetLatestGripHK_Read
  \/ GetLatestGripHK_Close

SpecStored == InitStored /\ [][NextStored]_vars

TypeOK ==
  /\ nFrames \in 0 .. MAX_FRAMES
  /\ pc \in {"idle", "rt_open", "rt_read", "rt_slice", "rt_close",
             "hk_open", "hk_read", "hk_close", "exit"}

(***************************************************************************)
(* Properties.                                                             *)
(***************************************************************************)
OpenStates == {"rt_open", "hk_open"}

\* A step that is a call of GetGripRT.
CallOfGetGripRT == calls' = calls + 1 /\ last_call' \in {"rt", "rt_full"}

\* A step of GetGripRT that calls _read; of GetLatestGripHK likewise.
ReadStepRT == pc = "rt_read" /\ nFrames < MAX_FRAMES /\ pc' # pc
ReadStepHK == pc = "hk_read"

\* C1: buffer-full is absorbing.  A pass that ends with nFrames >= MAX_FRAMES
\* is not a fatal stop: the read loop goes on to the close, and the return
\* raises the alert.  From then on the alert stays, every call of GetGripRT
\* returns FALSE at once without opening or reading the cache, and nFrames
\* and every sample buffer stay as the filling pass left them.
C1_BufferFullAbsorbing ==
  [][ /\ (pc = "rt_read" /\ nFrames >= MAX_FRAMES) => pc' = "rt_close"
      /\ (pc = "rt_close" /\ pc' = "idle" /\ nFrames >= MAX_FRAMES)
           => buffers_full_alert'
      /\ buffers_full_alert
           => /\ buffers_full_alert'
              /\ nFrames' = nFrames
              /\ buffers' = buffers
              /\ pc' \notin {"rt_open", "rt_read", "rt_slice", "rt_close"}
      /\ (buffers_full_alert /\ CallOfGetGripRT)
           => /\ return_value' = FALSE_
              /\ pc' = "idle"
              /\ last_call' = "rt_full"
              /\ UNCHANGED << fid, filePosition, bytes_read, packets_read >>
    ]_vars

C1_Witness ==
  /\ buffers_full_alert
  /\ last_call = "rt_full"
  /\ pc = "idle"
  /\ return_value = FALSE_
  /\ nFrames = MAX_FRAMES
  /\ PacketReceived[MAX_FRAMES - 1] = -10000

C3_HeaderGatesDecoding ==
  [][ /\ (ReadStepRT /\ bytes_read' = rtPacketLengthInBytes)
           => IF /\ packet'.epmSyncMarker = EPM_TELEMETRY_SYNC_VALUE
                 /\ packet'.TMIdentifier = GRIP_RT_ID
              THEN /\ pc' = "rt_slice"
                   /\ rt'.dataSlice = packet'.dataSlice
              ELSE /\ pc' = "exit"
                   /\ exit_cause' = "packet"
                   /\ UNCHANGED << buffers, nFrames, dex, rt, statics,
                                   return_value, hk >>
      /\ (ReadStepHK /\ bytes_read' = hkPacketLengthInBytes)
           => IF /\ packet'.epmSyncMarker = EPM_TELEMETRY_SYNC_VALUE
                 /\ packet'.TMIdentifier = GRIP_HK_ID
              THEN /\ pc' = "hk_read"
                   /\ hk' = packet'.hk
              ELSE /\ pc' = "exit"
                   /\ exit_cause' = "packet"
                   /\ UNCHANGED << buffers, nFrames, dex, hk, statics, return_value >>
      /\ pc = "exit" => UNCHANGED vars
    ]_vars

C3_Witness ==
  /\ pc = "exit"
  /\ exit_cause = "packet"
  /\ last_call = "rt"
  /\ packets_read = 2
  /\ packet.epmSyncMarker = EPM_TELEMETRY_SYNC_VALUE
  /\ packet.TMIdentifier = GRIP_HK_ID
  /\ nFrames >= RT_SLICES_PER_PACKET

\* C4: a short read is the normal end of the cache, only a negative read
\* is fatal.  A _read that yields fewer bytes than a record, zero included,
\* ends the read loop without an error and without consuming anything: the
\* call goes on to close the file and return, and the buffers, the decoder
\* state and the caller's structure stay as they were.  The program exits
\* for a read only when _read yields a negative count.  (A _close that
\* fails is an exit of its own, not one for the read.)
C4_ShortReadIsEndOfFile ==
  [][ /\ (ReadStepRT /\ bytes_read' >= 0 /\ bytes_read' < rtPacketLengthInBytes)
           => /\ pc' = "rt_close"
              /\ exit_cause' = "none"
              /\ UNCHANGED << buffers, nFrames, dex, statics, packets_read,
                              epmHeader, rt, filePosition, fid >>
      /\ (ReadStepHK /\ bytes_read' >= 0 /\ bytes_read' < hkPacketLengthInBytes)
           => /\ pc' = "hk_close"
              /\ exit_cause' = "none"
              /\ UNCHANGED << buffers, nFrames, dex, statics, packets_read,
                              epmHeader, hk, filePosition, fid >>
      /\ ((ReadStepRT \/ ReadStepHK) /\ bytes_read' < 0)
           => (pc' = "exit" /\ exit_cause' = "read")
      /\ (exit_cause' = "read")
           => ((ReadStepRT \/ ReadStepHK) /\ bytes_read' < 0)
      /\ (pc \in {"rt_close", "hk_close"} /\ pc' = "idle")
           => (fid' < 0 /\ exit_cause' = "none" /\ UNCHANGED << buffers, nFrames, dex >>)
    ]_vars

C4_Witness ==
  /\ pc = "rt_close"
  /\ bytes_read = rtPacketLengthInBytes \div 2
  /\ packets_read = 2
  /\ nFrames >= 2 * RT_SLICES_PER_PACKET
  /\ exit_cause = "none"

\* C5: both readers return TRUE exactly when the TMCounter of the record
\* read last in the pass differs from the counter remembered from the
\* previous return, and the remembered counter becomes that TMCounter; when
\* the two are equal the result is FALSE and the remembered counter stays.
\* The test is an inequality of 16-bit values, so a counter that wrapped to
\* a smaller value counts as new.  (Passes that read at least one record.)
C5_NewDataIsCounterInequality ==
  [][ /\ (pc = "rt_close" /\ pc' = "idle" /\ packets_read > 0)
           => LET counter == rtCache[filePosition].TMCounter
              IN  /\ return_value' = (IF counter # previousTMCounterRT
                                      THEN TRUE_ ELSE FALSE_)
                  /\ previousTMCounterRT' = counter
                  /\ previousTMCounterHK' = previousTMCounterHK
      /\ (pc = "hk_close" /\ pc' = "idle" /\ packets_read > 0)
           => LET counter == hkCache[filePosition].TMCounter
              IN  /\ return_value' = (IF counter # previousTMCounterHK
                                      THEN TRUE_ ELSE FALSE_)
                  /\ previousTMCounterHK' = counter
                  /\ previousTMCounterRT' = previousTMCounterRT
    ]_vars

C5_Witness ==
  /\ pc = "idle"
  /\ last_call = "rt"
  /\ calls = 2
  /\ return_value = TRUE_
  /\ packets_read = 2
  /\ rtCache[1].TMCounter = TMCounterModulus - 1
  /\ previousTMCounterRT = 0
  /\ cacheLengthSeen = 2

\* C6: a pass of GetGripRT reports new data exactly when at least one
\* complete record was appended to the cache since the previous pass,
\* whatever the TMCounter of the records, the very first pass included.
\* Stated for the passes that read at least one record, where the counter
\* tested is that of a record, and that end with room left in the buffers.
C6_NewDataIffAppended ==
  [][ (pc = "rt_close" /\ pc' = "idle" /\ packets_read > 0 /\ nFrames < MAX_FRAMES)
        => (return_value' = TRUE_ <=> Len(rtCache) > cacheLengthSeen) ]_vars

\* A step of GetGripRT that accepts a record that follows another record of
\* the same pass.
AcceptsLaterRecord ==
  /\ ReadStepRT
  /\ packets_read >= 1
  /\ packets_read' = packets_read + 1
  /\ pc' # "exit"

FrameKept(f) ==
  /\ ManipulandumPosition'[f] = ManipulandumPosition[f]
  /\ ManipulandumRotations'[f] = ManipulandumRotations[f]
  /\ Acceleration'[f] = Acceleration[f]
  /\ GripForce'[f] = GripForce[f]
  /\ LoadForce'[f] = LoadForce[f]
  /\ NormalForce'[LEFT_ATI][f] = NormalForce[LEFT_ATI][f]
  /\ NormalForce'[RIGHT_ATI][f] = NormalForce[RIGHT_ATI][f]
  /\ LoadForceMagnitude'[f] = LoadForceMagnitude[f]
  /\ CenterOfPressure'[LEFT_ATI][f] = CenterOfPressure[LEFT_ATI][f]
  /\ CenterOfPressure'[RIGHT_ATI][f] = CenterOfPressure[RIGHT_ATI][f]
  /\ RealMarkerTime'[f] = RealMarkerTime[f]
  /\ RealAnalogTime'[f] = RealAnalogTime[f]
  /\ MarkerVisibility'[f] = MarkerVisibility[f]
  /\ ManipulandumVisibility'[f] = ManipulandumVisibility[f]
  /\ FrameVisibility'[f] = FrameVisibility[f]
  /\ WristVisibility'[f] = WristVisibility[f]
  /\ PacketReceived'[f] = PacketReceived[f]

\* C8 as stated: nFrames never decreases from one state to the next and
\* the frames already appended are never cleared.
C8_NeverDecreases ==
  [][ /\ nFrames' >= nFrames
      /\ \A f \in Frames : f < nFrames => FrameKept(f) ]_vars

\* C8, amended: within one pass of GetGripRT nFrames never decreases and the
\* frames already appended are not touched; the only step that lowers
\* nFrames is the start of a pass that is not refused for full buffers,
\* which sets it to 0 and leaves the arrays as they are, to be overwritten
\* from the start of the cache; once the buffers are full nFrames stays.
C8_AppendOnlyWithinPass ==
  [][ \/ /\ nFrames' >= nFrames
         /\ \A f \in Frames : f < nFrames => FrameKept(f)
      \/ /\ pc = "idle"
         /\ pc' = "rt_open"
         /\ ~buffers_full_alert
         /\ nFrames' = 0
         /\ buffers' = buffers ]_vars

C8_Witness ==
  /\ pc = "rt_open"
  /\ calls = 2
  /\ nFrames = 0
  /\ cacheLengthSeen >= 1
  /\ PacketReceived[RT_SLICES_PER_PACKET - 1] = -10000

\* C9: the filter accumulators change only through the filter updates of a
\* decoded slice.  ResetBuffers and the start of a pass, the insertion of
\* placeholder frames, the early return for full buffers and the whole of
\* GetLatestGripHK leave every accumulator and the filter constant as they
\* are: the decoder is never reset after its construction.
C9_FilterStateOnlyFiltered ==
  [][ dex' # dex
        => /\ pc = "rt_slice"
           /\ nFrames' = nFrames + 1
           /\ slice' = slice + 1
           /\ PacketReceived'[nFrames] = -10000
           /\ dex'.filterConstant = dex.filterConstant ]_vars

C9_Witness ==
  /\ pc = "rt_slice"
  /\ calls = 2
  /\ cacheLengthSeen >= 1
  /\ packets_read = 2
  /\ slice = 0
  /\ PacketReceived[nFrames - 1] = MISSING_DOUBLE
  /\ dex.filteredManipulandumPosition # zeroVector
  /\ dex.filteredLoadForce # zeroVector

\* C10: for a slice whose manipulandum visibility is not set (the byte the
\* position branch tests is zero), the position
\* and the rotation of the frame are the missing value and the position and
\* rotation accumulators are what they were; for a slice whose visibility
\* is set, the position stored is the raw position divided by 10 and passed
\* through the recursive filter, and the accumulator holds that value.
C10_VisibilityGatesPosition ==
  [][ (pc = "rt_slice" /\ nFrames' = nFrames + 1)
        => LET s == rt.dataSlice[slice]
               k == dex.filterConstant
               old == dex.filteredManipulandumPosition
           IN  IF s.manipulandumVisibility = 0
               THEN /\ ManipulandumPosition'[nFrames] = missingVector
                    /\ ManipulandumRotations'[nFrames] = missingVector
                    /\ dex'.filteredManipulandumPosition = old
                    /\ dex'.filteredManipulandumRotations =
                         dex.filteredManipulandumRotations
               ELSE /\ \A i \in 1..3 :
                         ManipulandumPosition'[nFrames][i] =
                           Div(ToFloat(k * ToFloat(old[i]) + Div(s.position[i], 10)),
                               1 + k)
                    /\ dex'.filteredManipulandumPosition =
                         ManipulandumPosition'[nFrames]
    ]_vars

C10_Witness ==
  /\ pc = "rt_slice"
  /\ slice = 2
  /\ nFrames = 2
  /\ rt.dataSlice[1].manipulandumVisibility = 0
  /\ ManipulandumPosition[0] # missingVector
  /\ ManipulandumPosition[0] # zeroVector
  /\ ManipulandumPosition[1] = missingVector
  /\ ManipulandumRotations[1] = missingVector
  /\ dex.filteredManipulandumPosition = ManipulandumPosition[0]

\* The frames of the pass that come from a decoded slice.
DecodedFrames == {f \in 0 .. (nFrames - 1) : PacketReceived[f] = -10000}

\* The number of markers first .. last that the marker traces of frame f
\* show as visible to at least one tracking unit.
VisibleInFrame(f, first, last) ==
  Cardinality({mrk \in first .. last : MarkerVisibility[f][mrk] # MISSING_DOUBLE})

\* C17 as stated: for every decoded slice each of the three group flags
\* (manipulandum, markers 0-7; reference frame, markers 8-11; wrist,
\* markers 12-19) holds its visible code exactly when at least a minimum
\* number of the markers of its group, a number proper to the group, are
\* visible to at least one tracking unit in that slice, and the missing
\* value otherwise.
C17_GroupFlagsFromMarkerCounts ==
  \E minManipulandum \in 0 .. CODA_MARKERS, minFrame \in 0 .. CODA_MARKERS,
     minWrist \in 0 .. CODA_MARKERS :
    \A f \in DecodedFrames :
      /\ ManipulandumVisibility[f] =
           IF VisibleInFrame(f, MANIPULANDUM_FIRST_MARKER, MANIPULANDUM_LAST_MARKER)
                >= minManipulandum
           THEN 10000 ELSE MISSING_DOUBLE
      /\ FrameVisibility[f] =
           IF VisibleInFrame(f, FRAME_FIRST_MARKER, FRAME_LAST_MARKER) >= minFrame
           THEN 30000 ELSE MISSING_DOUBLE
      /\ WristVisibility[f] =
           IF VisibleInFrame(f, WRIST_FIRST_MARKER, WRIST_LAST_MARKER) >= minWrist
           THEN 50000 ELSE MISSING_DOUBLE

\* C17, amended: for every decoded slice the manipulandum flag holds its
\* visible code (10) exactly when bit 0 of the manipulandumVisibility byte
\* of the slice is set, whatever markers are visible; the reference frame
\* flag holds its code (30) exactly when all four of the markers 8-11 are
\* visible to at least one tracking unit, and the wrist flag its code (50)
\* exactly when at least three of the markers 12-19 are; each flag holds
\* the missing value otherwise.
C17_GroupFlagsAsDecoded ==
  [][ (pc = "rt_slice" /\ nFrames' = nFrames + 1)
        => LET s == rt.dataSlice[slice]
               either == s.markerVisibility[1] \cup s.markerVisibility[2]
               frame == Cardinality(either \cap (FRAME_FIRST_MARKER .. FRAME_LAST_MARKER))
               wrist == Cardinality(either \cap (WRIST_FIRST_MARKER .. WRIST_LAST_MARKER))
           IN  /\ ManipulandumVisibility'[nFrames] =
                    IF s.manipulandumVisibility % 2 = 1 THEN 10000 ELSE MISSING_DOUBLE
               /\ FrameVisibility'[nFrames] =
                    IF frame = 4 THEN 30000 ELSE MISSING_DOUBLE
               /\ WristVisibility'[nFrames] =
                    IF wrist >= 3 THEN 50000 ELSE MISSING_DOUBLE
               /\ \A mrk \in Markers :
                    (MarkerVisibility'[nFrames][mrk] # MISSING_DOUBLE) <=> (mrk \in either)
    ]_vars

\* The first two slices of a packet are decoded: in the first the
\* manipulandum flag is set with six of its markers visible, in the second
\* it is missing with all eight visible, and the frame flag is missing with
\* three of the four frame markers visible.
C17_Witness ==
  /\ pc = "rt_slice"
  /\ nFrames = 2
  /\ slice = 2
  /\ ManipulandumVisibility[0] = 10000
  /\ VisibleInFrame(0, MANIPULANDUM_FIRST_MARKER, MANIPULANDUM_LAST_MARKER) = 6
  /\ FrameVisibility[0] = 30000
  /\ WristVisibility[0] = 50000
  /\ ManipulandumVisibility[1] = MISSING_DOUBLE
  /\ VisibleInFrame(1, MANIPULANDUM_FIRST_MARKER, MANIPULANDUM_LAST_MARKER) = 8
  /\ FrameVisibility[1] = MISSING_DOUBLE
  /\ VisibleInFrame(1, FRAME_FIRST_MARKER, FRAME_LAST_MARKER) = 3
  /\ WristVisibility[1] = MISSING_DOUBLE

\* C19: the sample buffers are never overrun: in every state of a pass
\* 0 <= nFrames <= MAX_FRAMES, and every frame written, placeholder or
\* decoded slice, has an index below MAX_FRAMES, whatever the length of the
\* cache and the pattern of stream breaks.
C19_BuffersNeverOverrun ==
  [][ /\ 0 <= nFrames'
      /\ nFrames' <= MAX_FRAMES
      /\ nFrames' > nFrames
           => \A f \in nFrames .. (nFrames' - 1) : 0 <= f /\ f < MAX_FRAMES
    ]_vars

\* Placeholders and slices have filled the buffers, the last frame taken by
\* a slice in the middle of a packet, which ended the loop over the slices.
C19_Witness ==
  /\ pc = "rt_read"
  /\ nFrames = MAX_FRAMES
  /\ slice > 0
  /\ slice < RT_SLICES_PER_PACKET
  /\ PacketReceived[0] = MISSING_DOUBLE
  /\ PacketReceived[MAX_FRAMES - 1] = -10000

\* The pass in progress has ended on a short read with room left in the
\* buffers.
EndedByShortReadBelowCapacity ==
  /\ pc = "rt_close"
  /\ bytes_read # rtPacketLengthInBytes
  /\ nFrames < MAX_FRAMES

\* The frames a cache gives when read in file order from record i on, prev
\* being the timestamp of the record before: for each record the placeholder
\* frames of a break, then its slices in slice order.  A frame is written
\* here as <<marker time, packet trace>>.
RECURSIVE FramesInStreamOrder(_, _, _)
FramesInStreamOrder(cache, i, prev) ==
  IF i > Len(cache) THEN <<>>
  ELSE LET record == cache[i]
           placeholders ==
             IF record.packetTimestamp - prev > PACKET_STREAM_BREAK_THRESHOLD
             THEN [j \in 1 .. MAX_PLOT_STEP |-> <<MISSING_DOUBLE, MISSING_DOUBLE>>]
             ELSE <<>>
           slices ==
             [j \in 1 .. RT_SLICES_PER_PACKET |->
                <<record.dataSlice[j - 1].bestGuessPoseTimestamp, -10000>>]
       IN  placeholders \o slices
             \o FramesInStreamOrder(cache, i + 1, record.packetTimestamp)

\* C20: frames are appended in stream order.  After a pass that ends by a
\* short read below capacity the buffers hold, for each accepted packet in
\* file order, first the placeholder frames of the break before it, if any,
\* and then its RT_SLICES_PER_PACKET slices in slice order, none skipped,
\* duplicated or reordered, and nFrames is 10 * (packets accepted) +
\* (placeholders inserted).
C20_FramesInStreamOrder ==
  EndedByShortReadBelowCapacity
    => LET expected == FramesInStreamOrder(rtCache, 1, 0)
           placeholders ==
             Cardinality({f \in 0 .. (nFrames - 1) : PacketReceived[f] = MISSING_DOUBLE})
       IN  /\ packets_read = Len(rtCache)
           /\ nFrames = Len(expected)
           /\ \A f \in 0 .. (nFrames - 1) :
                 <<RealMarkerTime[f], PacketReceived[f]>> = expected[f + 1]
           /\ nFrames = 10 * packets_read + placeholders

\* Two packets read without a break, the second stamped later than the first.
C20_Witness ==
  /\ EndedByShortReadBelowCapacity
  /\ packets_read = 2
  /\ nFrames = 2 * RT_SLICES_PER_PACKET
  /\ RealMarkerTime[0] = 0
  /\ RealMarkerTime[RT_SLICES_PER_PACKET] = 1000
  /\ RealMarkerTime[nFrames - 1] = 1000 + 50 * (RT_SLICES_PER_PACKET - 1)

\* A step of GetGripRT that reads and accepts the first record of a pass.
AcceptsFirstRecord ==
  /\ ReadStepRT
  /\ packets_read = 0
  /\ packets_read' = 1
  /\ pc' # "exit"

\* C21: the previous-packet timestamp is 0 at the start of every pass, so
\* the first packet read in a pass is taken as arriving after a long delay:
\* whenever its timestamp exceeds PACKET_STREAM_BREAK_THRESHOLD, placeholder
\* frames are put before its samples, in the first pass and in every later
\* pass alike; when it does not, none is.
C21_FirstPacketOfPassAfterLongDelay ==
  [][ /\ (pc' = "rt_read" /\ packets_read' = 0) => previous_packet_timestamp' = 0
      /\ AcceptsFirstRecord
           => /\ nFrames = 0
              /\ IF rt'.packetTimestamp > PACKET_STREAM_BREAK_THRESHOLD
                 THEN /\ nFrames' = MAX_PLOT_STEP
                      /\ \A f \in 0 .. (MAX_PLOT_STEP - 1) :
                           /\ PacketReceived'[f] = MISSING_DOUBLE
                           /\ RealMarkerTime'[f] = MISSING_DOUBLE
                 ELSE nFrames' = 0
              /\ previous_packet_timestamp' = rt'.packetTimestamp
    ]_vars

\* The second pass of a run has put placeholder frames before the samples
\* of its first packet, which is stamped later than the threshold, as the
\* first pass did over the same cache.
C21_Witness ==
  /\ calls = 2
  /\ last_call = "rt"
  /\ cacheLengthSeen >= 1
  /\ pc = "rt_slice"
  /\ packets_read = 1
  /\ slice = 0
  /\ rt.packetTimestamp > PACKET_STREAM_BREAK_THRESHOLD
  /\ nFrames = MAX_PLOT_STEP
  /\ PacketReceived[0] = MISSING_DOUBLE
  /\ PacketReceived[MAX_PLOT_STEP - 1] = MISSING_DOUBLE

\* Frame f of the pass in progress, or of the last pass, is a placeholder.
Placeholder(f) == f < nFrames /\ PacketReceived[f] = MISSING_DOUBLE

\* C22: every placeholder frame put in at a stream break is entirely
\* missing: every channel of the frame (position, rotations, grip force,
\* both normal forces, load force and its magnitude, both centers of
\* pressure, acceleration, the marker and group visibility values, the
\* packet-received flag, the pose time and the analog time) holds
\* MISSING_DOUBLE and no value left from an earlier pass or frame.
C22_PlaceholderEntirelyMissing ==
  \A f \in Frames :
    Placeholder(f)
      => /\ ManipulandumPosition[f] = missingVector
         /\ ManipulandumRotations[f] = missingVector
         /\ GripForce[f] = MISSING_DOUBLE
         /\ NormalForce[LEFT_ATI][f] = MISSING_DOUBLE
         /\ NormalForce[RIGHT_ATI][f] = MISSING_DOUBLE
         /\ LoadForce[f] = missingVector
         /\ LoadForceMagnitude[f] = MISSING_DOUBLE
         /\ CenterOfPressure[LEFT_ATI][f] = missingVector
         /\ CenterOfPressure[RIGHT_ATI][f] = missingVector
         /\ Acceleration[f] = missingVector
         /\ \A mrk \in Markers : MarkerVisibility[f][mrk] = MISSING_DOUBLE
         /\ ManipulandumVisibility[f] = MISSING_DOUBLE
         /\ FrameVisibility[f] = MISSING_DOUBLE
         /\ WristVisibility[f] = MISSING_DOUBLE
         /\ RealMarkerTime[f] = MISSING_DOUBLE
         /\ RealAnalogTime[f] = MISSING_DOUBLE

\* The channels that the blank-frame loop does write are missing in every
\* placeholder frame.
PlaceholderMissingWhereWritten ==
  \A f \in Frames :
    Placeholder(f)
      => /\ ManipulandumPosition[f] = missingVector
         /\ ManipulandumRotations[f] = missingVector
         /\ GripForce[f] = MISSING_DOUBLE
         /\ NormalForce[LEFT_ATI][f] = MISSING_DOUBLE
         /\ NormalForce[RIGHT_ATI][f] = MISSING_DOUBLE
         /\ Acceleration[f] = missingVector
         /\ \A mrk \in Markers : MarkerVisibility[f][mrk] = MISSING_DOUBLE
         /\ ManipulandumVisibility[f] = MISSING_DOUBLE
         /\ FrameVisibility[f] = MISSING_DOUBLE
         /\ WristVisibility[f] = MISSING_DOUBLE
         /\ RealMarkerTime[f] = MISSING_DOUBLE

\* A step of GetGripRT that reads and accepts a record.
AcceptsRecord ==
  /\ ReadStepRT
  /\ packets_read' = packets_read + 1
  /\ pc' # "exit"

\* C23: every accepted realtime packet contributes at least one real frame
\* to the buffer, and the frame at index MAX_FRAMES - 1 is never a
\* placeholder: the insertion of placeholders always leaves at least one
\* free slot, which the first slice of the packet takes.
C23_AcceptedPacketGivesRealFrame ==
  [][ /\ AcceptsRecord
           => /\ nFrames' < MAX_FRAMES
              /\ pc' = "rt_slice"
              /\ slice' = 0
      /\ (pc = "rt_slice" /\ slice = 0)
           => /\ nFrames' = nFrames + 1
              /\ PacketReceived'[nFrames] = -10000
              /\ RealMarkerTime'[nFrames] = rt.dataSlice[0].bestGuessPoseTimestamp
      /\ PacketReceived'[MAX_FRAMES - 1] # MISSING_DOUBLE
    ]_vars

\* The placeholders of a second stream break have stopped at the frame
\* before the last, and the first slice of the packet has taken the last.
C23_Witness ==
  /\ pc = "rt_read"
  /\ packets_read = 2
  /\ slice = 1
  /\ nFrames = MAX_FRAMES
  /\ PacketReceived[MAX_FRAMES - 1] = -10000
  /\ PacketReceived[MAX_FRAMES - 2] = MISSING_DOUBLE
  /\ Cardinality({f \in Frames : PacketReceived[f] = MISSING_DOUBLE})
       < 2 * MAX_PLOT_STEP

\* The pass closing in this step is the second of two complete passes of
\* GetGripRT over the same cache file, and both stay below capacity.
ClosesRepeatedPass ==
  /\ pc = "rt_close"
  /\ pc' = "idle"
  /\ cacheLengthSeen = Len(rtCache)
  /\ Len(framesSeen) < MAX_FRAMES
  /\ nFrames < MAX_FRAMES

\* C24: re-ingestion is idempotent: a pass of GetGripRT over the cache file
\* the pass before it read, unchanged since and below capacity, leaves the
\* same number of frames as that pass did and the same value in every
\* channel of every frame.
C24_ReingestionIdempotent ==
  [][ ClosesRepeatedPass => FramesLeft = framesSeen ]_vars

\* The part of C24 the code keeps: the repeated pass leaves the same number
\* of frames.
C24_SameFrameCount ==
  [][ ClosesRepeatedPass => nFrames = Len(framesSeen) ]_vars

\* C25: in every frame that comes from a decoded slice, whatever the
\* manipulandum-visibility byte of the slice, the position of the frame is
\* not the missing value exactly when the manipulandum-visibility trace of
\* the frame holds the visible code 10 (10000 thousandths).
C25_PositionAgreesWithVisibilityFlag ==
  \A f \in DecodedFrames :
    ManipulandumPosition[f] # missingVector <=> ManipulandumVisibility[f] = 10000

\* The part of C25 the code keeps: a frame flagged visible has a position.
C25_FlaggedVisibleHasPosition ==
  \A f \in DecodedFrames :
    ManipulandumVisibility[f] = 10000 => ManipulandumPosition[f] # missingVector

\* The pass returning in this step read no complete record: the cache file
\* was empty or held only a part of a record.
ReturnsFromEmptyPass ==
  /\ pc \in {"rt_close", "hk_close"}
  /\ pc' = "idle"
  /\ packets_read = 0

\* C26: a pass that reads no complete record returns a determinate result:
\* it reports no new data and leaves the last-observed counters as they
\* were, and the realtime pass leaves the frame count at 0; this for the
\* realtime and for the housekeeping pass.
C26_EmptyPassIsDeterminate ==
  [][ ReturnsFromEmptyPass
        => /\ return_value' = FALSE_
           /\ previousTMCounterRT' = previousTMCounterRT
           /\ previousTMCounterHK' = previousTMCounterHK
           /\ (pc = "rt_close" => nFrames' = 0)
           /\ (pc = "hk_close" => nFrames' = nFrames)
    ]_vars

\* The part of C26 the code keeps: the frame count.
C26_EmptyPassLeavesNoFrames ==
  [][ ReturnsFromEmptyPass
        => /\ (pc = "rt_close" => nFrames' = 0)
           /\ (pc = "hk_close" => nFrames' = nFrames)
    ]_vars

\* C27: GetLatestGripHK, when it returns, leaves in the caller's structure
\* the decoded contents of the last complete record of the housekeeping
\* cache, however many records precede it; when the cache holds no complete
\* record no step of the call modifies the structure.
C27_LatestHKIsLastRecord ==
  [][ /\ (pc = "hk_read" /\ pc' = "hk_close")
           => /\ filePosition = Len(hkCache)
              /\ packets_read = Len(hkCache)
              /\ Len(hkCache) > 0 => hk' = hkCache[Len(hkCache)].hk
      /\ (pc = "hk_close" /\ pc' = "idle") => hk' = hk
      /\ (pc' \in {"hk_open", "hk_read", "hk_close"} /\ packets_read' = 0)
           => hk' = hk
    ]_vars

\* GetLatestGripHK has returned from a cache of two records with the
\* contents of the second.
C27_Witness ==
  /\ pc = "idle"
  /\ last_call = "hk"
  /\ Len(hkCache) = 2
  /\ packets_read = 2
  /\ hk = hkCache[2].hk
  /\ hk # hkCache[1].hk

\* Where a pass is between its entry and its return, and where it closes.
PassStates == {"rt_open", "rt_read", "rt_slice", "rt_close", "hk_open", "hk_read", "hk_close"}
CloseStates == {"rt_close", "hk_close"}

\* C28: open and close are paired. A pass that has opened the cache file
\* returns only through its close, which finds the file open and leaves it
\* closed, so that it is closed exactly once, whether the loop ended by a
\* short read or at capacity; the file is released by no other step; the
\* file is read only while it is open, hence never after the close; and a
\* close that does not return ends the program with the close as the cause.
C28_OpenClosePaired ==
  [][ /\ (pc \in PassStates /\ pc' = "idle")
           => (pc \in CloseStates /\ fid = 3 /\ fid' = -1)
      /\ (fid = 3 /\ fid' # 3) => (pc \in CloseStates /\ pc' = "idle")
      /\ (pc \in CloseStates)
           => /\ fid = 3
              /\ pc' \in {"idle", "exit"}
              /\ pc' = "exit" => (exit_cause' = "close" /\ return_value' = return_value)
      /\ (pc \in {"rt_read", "rt_slice", "hk_read"}) => fid = 3
      /\ (filePosition' > filePosition \/ packets_read' > packets_read)
           => (fid = 3 /\ fid' = 3)
    ]_vars

\* A realtime pass that filled the buffers has returned with the file closed.
C28_Witness ==
  /\ pc = "idle"
  /\ last_call = "rt"
  /\ nFrames = MAX_FRAMES
  /\ filePosition >= 1
  /\ fid = -1
  /\ exit_cause = "none"

\* C29: in the realtime pass a slice updates the center-of-pressure
\* accumulator of a sensor exactly when the magnitude of the force along X
\* of that sensor exceeds COP_MIN_GRIP: then the accumulator becomes the
\* recursive filter of its old value and the center of pressure computed
\* from the slice, and the frame holds the accumulator; otherwise the center
\* of pressure of the frame is the missing value and the accumulator is what
\* it was, so that the missing value never enters an accumulator.
C29_CoPFilteredOnlyWhenValid ==
  [][ (pc = "rt_slice" /\ nFrames' = nFrames + 1)
        => \A ati \in {LEFT_ATI, RIGHT_ATI} :
             LET force == rt.dataSlice[slice].ft[ati].force
                 torque == rt.dataSlice[slice].ft[ati].torque
                 old == dex.filteredCoP[ati]
             IN  IF fabs(force[1]) > COP_MIN_GRIP
                 THEN /\ dex'.filteredCoP[ati] =
                           RecursiveFilter(old,
                             << 0, Quotient(-torque[3], force[1]),
                                Quotient(-torque[2], force[1]) >>,
                             dex.filterConstant)
                      /\ CenterOfPressure'[ati][nFrames] = dex'.filteredCoP[ati]
                 ELSE /\ CenterOfPressure'[ati][nFrames] = missingVector
                      /\ dex'.filteredCoP[ati] = old
    ]_vars

\* The second slice of a packet has been decoded: its left sensor is at the
\* threshold and its right sensor below it, so the frame has no center of
\* pressure and the accumulators hold what the first slice left.
C29_Witness ==
  /\ pc = "rt_slice"
  /\ slice = 2
  /\ nFrames >= 2
  /\ fabs(rt.dataSlice[1].ft[LEFT_ATI].force[1]) = COP_MIN_GRIP
  /\ CenterOfPressure[LEFT_ATI][nFrames - 1] = missingVector
  /\ CenterOfPressure[RIGHT_ATI][nFrames - 1] = missingVector
  /\ CenterOfPressure[LEFT_ATI][nFrames - 2] # missingVector
  /\ dex.filteredCoP[LEFT_ATI] = CenterOfPressure[LEFT_ATI][nFrames - 2]
  /\ dex.filteredCoP[RIGHT_ATI] = CenterOfPressure[RIGHT_ATI][nFrames - 2]
  /\ dex.filteredCoP[LEFT_ATI] # zeroVector

(***************************************************************************)
(* ComputeCoP called on its own (DexAnalogMixin.cpp:65-84).                *)
(***************************************************************************)
\* The normal forces, in thousandths: none, below, at and above the
\* thresholds, of either sign.
CoPNormalForces == {-2000, -COP_MIN_GRIP, -250, 0, 250, COP_MIN_GRIP, 2000}
CoPTangentialForces == {0, 300}
CoPTorques == {-70, 0, 45}
CoPThresholds == {0, 250, COP_MIN_GRIP}

InitCoP ==
  /\ ProgramInit
  /\ mixin = DexAnalogMixin(ZeroMemory)
  /\ arguments \in
       [ function : {"ComputeCoP"},
         force : CoPNormalForces \X CoPTangentialForces \X {0},
         torque : {0} \X CoPTorques \X CoPTorques,
         threshold : CoPThresholds ]
  /\ returned = NoCall

CallComputeCoP ==
  /\ arguments.function = "ComputeCoP"
  /\ returned = NoCall
  /\ \E r \in {ComputeCoP(arguments.force, arguments.torque, arguments.threshold)} :
       returned' = [function |-> "ComputeCoP", cop |-> r.cop, distance |-> r.distance]
  /\ UNCHANGED <<program, mixin, arguments>>

NextCoP == CallComputeCoP

SpecCoP == InitCoP /\ [][NextCoP]_vars

\* q is the quotient a / b to the resolution of the model.
IsQuotient(q, a, b) == b # 0 /\ fabs(q * b - a * 1000) < fabs(b)

\* C11: for every force, torque and threshold >= 0, when |force[X]| is above
\* the threshold ComputeCoP gives cop = (0, -torque[Z]/force[X],
\* -torque[Y]/force[X]), a distance that is not negative, and divides by
\* nothing that is zero; otherwise (|force[X]| equal to the threshold
\* included) the three coordinates are the missing value and the distance
\* is -1.
C11_CoPClosedFormOrMissing ==
  returned.function = "ComputeCoP"
    => LET fx == arguments.force[1]
       IN  IF fabs(fx) > arguments.threshold
           THEN /\ fx # 0
                /\ returned.cop[1] = 0
                /\ IsQuotient(returned.cop[2], -arguments.torque[3], fx)
                /\ IsQuotient(returned.cop[3], -arguments.torque[2], fx)
                /\ _finite(returned.distance)
                /\ returned.distance >= 0
           ELSE /\ returned.cop = missingVector
                /\ returned.distance = -1000

\* The normal force equals a threshold of zero, and the result is missing.
C11_Witness ==
  /\ returned.function = "ComputeCoP"
  /\ arguments.force[1] = 0
  /\ arguments.threshold = 0
  /\ arguments.torque[3] # 0
  /\ returned.cop = missingVector
  /\ returned.distance = -1000

(***************************************************************************)
(* The filters called on their own (DexAnalogMixin.cpp:125-213).           *)
(***************************************************************************)
\* The channels: a filter routine and, where it takes one, the sensor.
VectorChannels ==
  { <<"FilterLoadForce", 0>>, <<"FilterCoP", 1>>, <<"FilterCoP", 2>>,
    <<"FilterManipulandumPosition", 0>>, <<"FilterManipulandumRotations", 0>>,
    <<"FilterAcceleration", 0>> }
ScalarChannels ==
  { <<"FilterGripForce", 0>>, <<"FilterNormalForce", 1>>, <<"FilterNormalForce", 2>> }
Channels == VectorChannels \cup ScalarChannels

\* The accumulator of a channel.
Accumulator(d, channel) ==
  CASE channel[1] = "FilterLoadForce" -> d.filteredLoadForce
    [] channel[1] = "FilterCoP" -> d.filteredCoP[channel[2]]
    [] channel[1] = "FilterManipulandumPosition" -> d.filteredManipulandumPosition
    [] channel[1] = "FilterManipulandumRotations" -> d.filteredManipulandumRotations
    [] channel[1] = "FilterAcceleration" -> d.filteredAcceleration
    [] channel[1] = "FilterGripForce" -> d.filteredGripForce
    [] channel[1] = "FilterNormalForce" -> d.filteredNormalForce[channel[2]]

\* The instance after the filter routine of a channel has run on a sample.
CallFilterRoutine(d, channel, sample) ==
  CASE channel[1] = "FilterLoadForce" -> FilterLoadForce(d, sample)
    [] channel[1] = "FilterCoP" -> FilterCoP(d, channel[2], sample)
    [] channel[1] = "FilterManipulandumPosition" -> FilterManipulandumPosition(d, sample)
    [] channel[1] = "FilterManipulandumRotations" -> FilterManipulandumRotations(d, sample)
    [] channel[1] = "FilterAcceleration" -> FilterAcceleration(d, sample)
    [] channel[1] = "FilterGripForce" -> FilterGripForce(d, sample)
    [] channel[1] = "FilterNormalForce" -> FilterNormalForce(d, sample, channel[2])

\* An instance whose filter constant is k and whose accumulators hold a.
MixinHolding(k, a) ==
  [ filterConstant |-> k,
    filteredManipulandumPosition |-> <<a, -a, 0>>,
    filteredManipulandumRotations |-> <<a, -a, 0>>,
    filteredLoadForce |-> <<a, -a, 0>>,
    filteredAcceleration |-> <<a, -a, 0>>,
    filteredCoP |-> << <<a, -a, 0>>, <<a, -a, 0>> >>,
    filteredGripForce |-> a,
    filteredNormalForce |-> <<a, a>> ]

\* Filter constants, and the values of accumulators and samples, in
\* thousandths: small ones, and ones that need more than the 24 bits of a
\* float significand.
FilterConstants == {0, 1, 100}
FilterValues == {0, 1500, FloatSignificand + 1}

\* The sample handed to a channel for the value x.
SampleOf(channel, x) == IF channel \in VectorChannels THEN <<x, -x, 0>> ELSE x

InitFilter ==
  /\ ProgramInit
  /\ mixin \in { MixinHolding(k, a) : k \in FilterConstants, a \in FilterValues }
  /\ arguments = [function |-> "none", calls |-> 0]
  /\ returned = NoCall

\* One filter update: the instance is updated and the filtered value comes
\* back, in place for a vector and as the return value for a scalar.
CallFilter ==
  /\ arguments.calls < MaxFilterCalls
  /\ \E channel \in Channels, x \in FilterValues :
       \E d \in {CallFilterRoutine(mixin, channel, SampleOf(channel, x))} :
         /\ mixin' = d
         /\ arguments' = [ function |-> channel[1], channel |-> channel,
                           sample |-> SampleOf(channel, x),
                           calls |-> arguments.calls + 1 ]
         /\ returned' = [function |-> channel[1], value |-> Accumulator(d, channel)]
  /\ UNCHANGED program

NextFilter == CallFilter

SpecFilter == InitFilter /\ [][NextFilter]_vars

\* (new_sample + k * previous_accumulator) / (1 + k), to the resolution of
\* the model.
WeightedMean(sample, previous, k) == Div(sample + k * previous, 1 + k)

\* C12: every filter update of a channel sets the accumulator of the channel
\* to (new_sample + k * previous_accumulator) / (1 + k), component by
\* component for a vector channel, gives that value as the filtered result
\* and leaves the accumulators of the other channels as they were; with
\* k = 0 the filtered result is the input, whatever the accumulator held.
C12_FilterUpdateIsWeightedMean ==
  [][ arguments'.calls = arguments.calls + 1
        => LET channel == arguments'.channel
               sample == arguments'.sample
               k == mixin.filterConstant
               previous == Accumulator(mixin, channel)
               expected ==
                 IF channel \in VectorChannels
                 THEN << WeightedMean(sample[1], previous[1], k),
                         WeightedMean(sample[2], previous[2], k),
                         WeightedMean(sample[3], previous[3], k) >>
                 ELSE WeightedMean(sample, previous, k)
           IN  /\ Accumulator(mixin', channel) = expected
               /\ returned'.value = expected
               /\ \A other \in Channels \ {channel} :
                     Accumulator(mixin', other) = Accumulator(mixin, other)
               /\ mixin'.filterConstant = k
               /\ k = 0 => returned'.value = sample
    ]_vars

(***************************************************************************)
(* One channel fed the same sample again and again.                        *)
(***************************************************************************)
InitFilterConstant ==
  /\ ProgramInit
  /\ mixin \in { MixinHolding(k, a) : k \in FilterConstants, a \in FilterValues }
  /\ arguments \in
       [function : {"FeedConstant"}, channel : Channels, constant : FilterValues]
  /\ returned = NoCall

FeedConstant ==
  /\ arguments.function = "FeedConstant"
  /\ \E d \in {CallFilterRoutine(mixin, arguments.channel,
                                  SampleOf(arguments.channel, arguments.constant))} :
       /\ mixin' = d
       /\ returned' = [ function |-> arguments.channel[1],
                        value |-> Accumulator(d, arguments.channel) ]
  /\ UNCHANGED <<program, arguments>>

NextFilterConstant == FeedConstant

SpecFilterConstant == InitFilterConstant /\ [][NextFilterConstant]_vars

\* The larger of two numbers.
Larger(a, b) == IF a >= b THEN a ELSE b

\* How far the filtered value of a channel is from the sample c: for a
\* vector, the largest distance of a component.
DistanceTo(value, c, channel) ==
  IF channel \in VectorChannels
  THEN Larger(fabs(value[1] - c[1]),
              Larger(fabs(value[2] - c[2]), fabs(value[3] - c[3])))
  ELSE fabs(value - c)

\* C13: with the same constant c fed repeatedly to one channel, whatever the
\* accumulator held and whatever k >= 0 is, an update never increases the
\* distance between the filtered output and c, and an output that has
\* reached c stays at c (c is a fixed point of the update, the limit the
\* output converges to).
C13_ConstantInputFixedPoint ==
  [][ LET channel == arguments.channel
          c == SampleOf(channel, arguments.constant)
          before == DistanceTo(Accumulator(mixin, channel), c, channel)
          after == DistanceTo(returned'.value, c, channel)
      IN  /\ returned'.value = Accumulator(mixin', channel)
          /\ after <= before
          /\ before = 0 => after = 0
    ]_vars

(***************************************************************************)
(* ComputeRigidBodyPose called on its own.                                 *)
(***************************************************************************)
\* Marker positions of a rigid body at the zero pose, in thousandths.  In
\* CentredBody the first marker is the centroid of the first five; in each
\* body the first four markers are not coplanar.
CentredBody ==
  << <<0, 0, 0>>, <<1000, 1000, 1000>>, <<1000, -1000, -1000>>,
     <<-1000, 1000, -1000>>, <<-1000, -1000, 1000>>, <<2000, 0, 0>>,
     <<0, 3000, 0>>, <<0, 0, -2000>> >>
GeneralBody ==
  << <<1000, 0, 0>>, <<0, 2000, 0>>, <<0, 0, 3000>>, <<1000, 1000, 1000>>,
     <<-1000, 2000, 0>>, <<2000, -1000, 1000>>, <<0, 1000, -2000>>,
     <<3000, 0, 1000>> >>
Bodies == {CentredBody, GeneralBody}

\* Rigid rotations: none, a quarter turn about X, a third of a turn about
\* the diagonal (1, 1, 1) and a half turn about X.
Rotations == {"none", "quarterX", "thirdDiagonal", "halfX"}

\* The quaternion of a rotation, as RotateVector takes it.
QuaternionOf(rotation) ==
  CASE rotation = "none" -> nullQuaternion
    [] rotation = "quarterX" -> <<707, 0, 0, 707>>
    [] rotation = "thirdDiagonal" -> <<500, 500, 500, 500>>
    [] rotation = "halfX" -> <<1000, 0, 0, 0>>

\* A vector turned by a rotation, exactly.
Turned(rotation, v) ==
  CASE rotation = "none" -> v
    [] rotation = "quarterX" -> <<v[1], -v[3], v[2]>>
    [] rotation = "thirdDiagonal" -> <<v[3], v[1], v[2]>>
    [] rotation = "halfX" -> <<v[1], -v[2], -v[3]>>

\* Translations: none, a small one, and one with a component that needs
\* more than the 24 bits of a float significand.
Translations == { zeroVector, <<1000, 2000, 3000>>, <<FloatSignificand + 1, 0, -500>> }

DefaultOrientations == {NoOrientation, nullQuaternion, <<500, 500, 500, 500>>}

\* The measured markers of a body turned and then moved.
Measured(body, rotation, translation) ==
  [i \in 1 .. Len(body) |-> AddVectors(Turned(rotation, body[i]), translation)]

InitPose ==
  /\ ProgramInit
  /\ mixin = DexAnalogMixin(ZeroMemory)
  /\ arguments \in
       { [ function |-> "ComputeRigidBodyPose", model |-> body,
           rotation |-> rotation, translation |-> translation,
           actual |-> Measured(body, rotation, translation),
           N |-> N, default_orientation |-> default_orientation ] :
           body \in Bodies, rotation \in Rotations, translation \in Translations,
           N \in 0 .. (MAX_RIGID_BODY_MARKERS + 1),
           default_orientation \in DefaultOrientations }
  /\ returned = NoCall

CallComputeRigidBodyPose ==
  /\ arguments.function = "ComputeRigidBodyPose"
  /\ returned = NoCall
  /\ \E r \in {ComputeRigidBodyPose(arguments.model, arguments.actual, arguments.N,
                                     arguments.default_orientation)} :
       returned' = [ function |-> "ComputeRigidBodyPose", valid |-> r.valid,
                     position |-> r.position, orientation |-> r.orientation,
                     slots |-> r.slots ]
  /\ UNCHANGED <<program, mixin, arguments>>

NextPose == CallComputeRigidBodyPose

SpecPose == InitPose /\ [][NextPose]_vars

\* The call has returned.
PoseReturned == returned # NoCall /\ returned.function = "ComputeRigidBodyPose"

InvalidPosition == <<INVALID_POSE, INVALID_POSE, INVALID_POSE>>
InvalidOrientation == <<INVALID_POSE, INVALID_POSE, INVALID_POSE, INVALID_POSE>>

\* C14: ComputeRigidBodyPose called with N < 3 markers and no default
\* orientation returns false and sets the three position components and the
\* four orientation components to -999.999, without reading any marker.
C14_TooFewMarkersGivesInvalidPose ==
  PoseReturned /\ arguments.N < 3 /\ arguments.default_orientation = NoOrientation
    => /\ returned.valid = FALSE
       /\ returned.position = InvalidPosition
       /\ returned.orientation = InvalidOrientation
       /\ returned.slots = {}

\* The call was made with no marker at all and no default orientation, on
\* a body that was turned and moved, and has returned the invalid pose.
C14_Witness ==
  /\ PoseReturned
  /\ arguments.N = 0
  /\ arguments.default_orientation = NoOrientation
  /\ arguments.rotation = "quarterX"
  /\ arguments.translation = <<1000, 2000, 3000>>
  /\ returned.valid = FALSE
  /\ returned.orientation = InvalidOrientation

\* The first MAX_RIGID_BODY_MARKERS markers of an array of markers.
FirstMarkers(markers) == SubSeq(markers, 1, MAX_RIGID_BODY_MARKERS)

\* C18: ComputeRigidBodyPose called with a marker count above
\* MAX_RIGID_BODY_MARKERS behaves exactly as the call with
\* N = MAX_RIGID_BODY_MARKERS on the first MAX_RIGID_BODY_MARKERS markers: it
\* reports no error and touches no marker or delta slot at an index
\* >= MAX_RIGID_BODY_MARKERS.
C18_MarkerCountTruncated ==
  PoseReturned /\ arguments.N > MAX_RIGID_BODY_MARKERS
    => \E atMaximum \in
            {ComputeRigidBodyPose(FirstMarkers(arguments.model),
                                  FirstMarkers(arguments.actual),
                                  MAX_RIGID_BODY_MARKERS,
                                  arguments.default_orientation)} :
         /\ returned.valid = atMaximum.valid
         /\ returned.valid = TRUE
         /\ returned.position = atMaximum.position
         /\ returned.orientation = atMaximum.orientation
         /\ returned.slots \subseteq 0 .. (MAX_RIGID_BODY_MARKERS - 1)

\* The call was made with one marker more than the maximum, on the general
\* body turned and moved, and has touched every slot below the maximum.
C18_Witness ==
  /\ PoseReturned
  /\ arguments.N = MAX_RIGID_BODY_MARKERS + 1
  /\ arguments.model = GeneralBody
  /\ arguments.rotation = "thirdDiagonal"
  /\ arguments.translation = <<1000, 2000, 3000>>
  /\ returned.valid = TRUE
  /\ returned.slots = 0 .. (MAX_RIGID_BODY_MARKERS - 1)

\* The mean over the first n markers of actual - model rotated by q.
MeanOffset(model, actual, q, n) ==
  LET sum == SumOfOffsets(model, actual, q, n)
  IN  <<Div(sum[1], n), Div(sum[2], n), Div(sum[3], n)>>

\* C15: ComputeRigidBodyPose called with any N < 3 and a default
\* orientation returns true, with the orientation equal to the default and
\* the position equal to the mean, over the N markers, of the actual marker
\* minus the model marker rotated by the default orientation.
C15_DefaultOrientationGivesMeanOffset ==
  PoseReturned /\ arguments.N < 3 /\ arguments.default_orientation # NoOrientation
    => /\ returned.valid = TRUE
       /\ returned.orientation = arguments.default_orientation
       /\ returned.position =
            MeanOffset(arguments.model, arguments.actual,
                       arguments.default_orientation, arguments.N)

\* The first n markers do not lie in one plane: some marker is off the
\* plane through the first three.
NonCoplanar(markers, n) ==
  \E i \in 4 .. n :
    Determinant(<< SubtractVectors(markers[2], markers[1]),
                   SubtractVectors(markers[3], markers[1]),
                   SubtractVectors(markers[i], markers[1]) >>) # 0

\* Two values agree within the tolerance; a value that is not finite agrees
\* with nothing.
Within(a, b) == _finite(a) /\ _finite(b) /\ fabs(a - b) <= PoseTolerance

SamePosition(p, t) == \A c \in 1 .. 3 : Within(p[c], t[c])

\* The same rotation: q and -q turn a vector alike.
SameOrientation(q, r) ==
  \/ \A c \in 1 .. 4 : Within(q[c], r[c])
  \/ \A c \in 1 .. 4 : Within(q[c], -r[c])

\* C16: for every rigid rotation R and translation T applied to a model of
\* N >= 4 markers that are not coplanar, ComputeRigidBodyPose returns true
\* with an orientation equal to R, up to the sign of the quaternion, and a
\* position equal to T, within the floating-point tolerance.
C16_RigidMotionRecovered ==
  ( /\ PoseReturned
    /\ arguments.N >= 4
    /\ NonCoplanar(arguments.model, ClampMarkerCount(arguments.N)) )
    => /\ returned.valid = TRUE
       /\ SameOrientation(returned.orientation, QuaternionOf(arguments.rotation))
       /\ SamePosition(returned.position, arguments.translation)

(***************************************************************************)
(* The constructor called on storage of any content                        *)
(* (DexAnalogMixin.cpp:31-61), then the first normal-force filter call     *)
(* (DexAnalogMixin.cpp:202-213).                                           *)
(***************************************************************************)
\* What the bytes of a double may hold before the object is constructed in
\* them (automatic or allocated storage), in thousandths.
IndeterminateDoubles == {0, 1, -700, 1500}

\* The storage of an instance before its construction: static storage is
\* zero, any other holds what was there.
Storages ==
  { [ ZeroMemory EXCEPT !.filterConstant = k,
                        !.filteredGripForce = g,
                        !.filteredLoadForce = <<g, g, g>>,
                        !.filteredCoP = << <<a, a, a>>, <<b, b, b>> >>,
                        !.filteredNormalForce = <<a, b>> ] :
      k \in IndeterminateDoubles, g \in IndeterminateDoubles,
      a \in IndeterminateDoubles, b \in IndeterminateDoubles }

InitConstruct ==
  /\ ProgramInit
  /\ mixin \in Storages
  /\ arguments = NoCall
  /\ returned = NoCall

\* DexAnalogMixin::DexAnalogMixin runs on the storage.
CallConstructor ==
  /\ returned = NoCall
  /\ mixin' = DexAnalogMixin(mixin)
  /\ arguments' = [function |-> "DexAnalogMixin"]
  /\ returned' = [function |-> "DexAnalogMixin"]
  /\ UNCHANGED program

\* The first call of FilterNormalForce on the instance just constructed.
CallFirstFilterNormalForce ==
  /\ returned.function = "DexAnalogMixin"
  /\ \E ati \in {LEFT_ATI, RIGHT_ATI}, x \in IndeterminateDoubles :
       \E d \in {FilterNormalForce(mixin, x, ati)} :
         /\ mixin' = d
         /\ arguments' = [function |-> "FilterNormalForce", normal_force |-> x, ati |-> ati]
         /\ returned' = [function |-> "FilterNormalForce", value |-> d.filteredNormalForce[ati]]
  /\ UNCHANGED program

NextConstruct == CallConstructor \/ CallFirstFilterNormalForce

SpecConstruct == InitConstruct /\ [][NextConstruct]_vars

\* C30: immediately after the construction of a decoder, in whatever storage
\* it is constructed, the smoothing constant is 100 and every filter
\* accumulator is zero: position, rotations, load force, acceleration, both
\* centers of pressure, grip force and both normal forces.
C30_ConstructedAccumulatorsZero ==
  returned.function = "DexAnalogMixin"
    => /\ mixin.filterConstant = 100
       /\ mixin.filteredManipulandumPosition = zeroVector
       /\ mixin.filteredManipulandumRotations = zeroVector
       /\ mixin.filteredLoadForce = zeroVector
       /\ mixin.filteredAcceleration = zeroVector
       /\ mixin.filteredCoP = <<zeroVector, zeroVector>>
       /\ mixin.filteredGripForce = 0
       /\ mixin.filteredNormalForce = <<0, 0>>

\* The part of C30 the code keeps: the constant and the accumulators the
\* constructor names.
C30_NamedAccumulatorsZero ==
  returned.function = "DexAnalogMixin"
    => /\ mixin.filterConstant = 100
       /\ mixin.filteredManipulandumPosition = zeroVector
       /\ mixin.filteredManipulandumRotations = zeroVector
       /\ mixin.filteredLoadForce = zeroVector
       /\ mixin.filteredAcceleration = zeroVector
       /\ mixin.filteredCoP = <<zeroVector, zeroVector>>
       /\ mixin.filteredGripForce = 0

====
